---------------------------- MODULE Spec2Model ----------------------------
(***************************************************************************)
(* Model of the Semeru memory-server concurrent marker                     *)
(* (G1SemeruConcurrentMark / G1SemeruCMTask / G1SemeruCMMarkStack).         *)
(*                                                                         *)
(* Spec       the marking phase: N workers run                             *)
(*            G1SemeruCMConcurrentMarkingTask::work, i.e. repeated         *)
(*            do_semeru_marking_step calls, over a collection-set chain.   *)
(* FairSpec   Spec with weak fairness on every worker's step.              *)
(* SpecStack  the overflow mark stack alone, par_push_chunk and            *)
(*            par_pop_chunk taken apart into their lock-protected and      *)
(*            unprotected steps.                                           *)
(* SpecList   FreeSemeruRegionList: add_ordered, remove_all,               *)
(*            remove_starting_at and num_of_regions_in_range.              *)
(* SpecRoot   G1SemeruCMRootRegions: the root-region scan, its claims, its *)
(*            cancellation and the threads waiting for its end.            *)
(* SpecClock  one regular_clock_call on any combination of its inputs.     *)
(* SpecRemark remark: finalize_marking and G1SemeruCMRemarkTask::work.     *)
(* SpecOverflow the overflow handling at the end of a marking step, in     *)
(*            either phase and with either value of is_serial.             *)
(* SpecSpill  the undisturbed marking phase, also with task queues as      *)
(*            large as a chunk of the overflow stack.                      *)
(* SpecVerify FreeSemeruRegionList::verify_list on freely drawn lists.     *)
(*                                                                         *)
(* The build modelled is the product build: assert() is compiled out,      *)
(* guarantee() is fatal.                                                   *)
(***************************************************************************)
EXTENDS Naturals, Integers, Sequences, FiniteSets, TLC

(***************************************************************************)
(* Bounds of the model.                                                    *)
(***************************************************************************)
NumWorkers == 2          \* marking workers (ConcGCThreads)
QueueMaxElems == 2       \* capacity of a per-worker deque (max_elems())
MarkStackChunks == 1     \* initial chunk capacity of the overflow stack
MarkStackChunksMax == 2  \* maximum chunk capacity of the overflow stack
StackThreads == 2        \* threads of SpecStack
StackOps == 4            \* push/pop operations started in SpecStack
MaxHeapRegions == 4      \* regions of SpecList
ListCalls == 2           \* calls made on the lists in SpecList
MaxRootRegions == 2      \* root regions registered in SpecRoot
NumScanners == 2         \* workers of G1SemeruCMRootRegionScanTask
NumWaiters == 2          \* callers of wait_until_scan_finished
VerifyRegions == 3       \* regions the lists of SpecVerify are drawn over
UnrealisticallyLongLength == 3 \* _unrealistically_long_length in SpecVerify
SpillMaxElems == 3       \* capacity of a per-worker deque in SpecSpill
NumSatbThreads == 2      \* threads with a SATB queue in SpecRemark
MaxSatbEntries == 1      \* entries in one thread's SATB queue at remark

(***************************************************************************)
(* Program constants (scaled).                                             *)
(***************************************************************************)
EntriesPerChunk == 2          \* G1SemeruCMMarkStack::EntriesPerChunk
GCDrainStackTargetSize == 64  \* flag GCDrainStackTargetSize
CacheSize == 2                \* entries of a G1RegionMarkStatsCache

NULL == 0
Workers == 0 .. (NumWorkers - 1)

Min(a, b) == IF a < b THEN a ELSE b

(***************************************************************************)
(* The heap.  Regions are numbered in address order; region 1 starts at    *)
(* _heap.start().  An object is identified with its address.               *)
(***************************************************************************)
Regions == 1 .. 4
HeapStart == 1
Objects == 1 .. 10

\* heap_region_containing(obj) / addr_to_region
ObjRegion(o) == IF o \in {1, 2, 3, 4, 5, 6, 10} THEN 1
                ELSE IF o \in {7, 8} THEN 2 ELSE 3

\* obj->size()
ObjSize(o) == IF o \in {2, 9} THEN 2 ELSE 1

\* obj->is_typeArray()
IsTypeArray(o) == o = 6

\* The reference fields obj->oop_iterate visits, as the values loaded.
Fields(o) ==
  CASE o = 1 -> <<2, 3, 7>>
    [] o = 2 -> <<1, 4, 5, 6>>
    [] o = 3 -> <<10, NULL>>
    [] o = 4 -> <<5>>
    [] o = 5 -> <<2>>
    [] o = 7 -> <<8, 1>>
    [] o = 8 -> <<7>>
    [] o = 9 -> <<9, 1>>
    [] OTHER -> << >>

\* The object that starts at region->bottom().
BottomObj(r) == CASE r = 1 -> 1 [] r = 2 -> 7 [] r = 3 -> 9 [] OTHER -> NULL

(***************************************************************************)
(* Heap layouts: the kind of every region and the collection-set chain.    *)
(*   normal  old region with NTAMS above bottom                            *)
(*   empty   region with NTAMS = bottom                                    *)
(*   hs      humongous-start region, hc humongous-continues region         *)
(* premarked: the humongous object's bit at bottom is set in the alive     *)
(* bitmap before marking starts.                                           *)
(***************************************************************************)
Layouts ==
  { [kind |-> <<"normal", "normal", "normal", "empty">>, chain |-> <<1, 4, 2>>, premarked |-> FALSE],
    [kind |-> <<"normal", "normal", "hs", "hc">>,        chain |-> <<1, 3, 4>>, premarked |-> TRUE],
    [kind |-> <<"normal", "empty", "hs", "hc">>,         chain |-> <<2, 1, 3>>, premarked |-> FALSE],
    [kind |-> <<"normal", "normal", "hs", "hc">>,        chain |-> <<1, 3>>, premarked |-> TRUE],
    [kind |-> <<"normal", "normal", "normal", "empty">>, chain |-> <<1>>, premarked |-> FALSE] }

\* Target-object queue of a region at cycle start: the referents its
\* entries load (roots into the region, possibly stale or cross-region).
InitialTargetQueue(r) ==
  CASE r = 1 -> <<1, 2, 4, 5, 3>>
    [] r = 2 -> <<7, 1>>
    [] r = 3 -> <<9>>
    [] OTHER -> << >>

VARIABLES
  layout,            \* the heap layout of this run
  max_elems,         \* capacity of every task queue (G1SemeruCMTaskQueue::max_elems())
  entries_per_chunk, \* G1SemeruCMMarkStack::entries_per_chunk of this run
  restart_for_overflow, \* G1SemeruConcurrentMark::_restart_for_overflow
  finger,            \* G1SemeruConcurrentMark::_finger (a region's bottom, or NULL)
  has_overflown,     \* G1SemeruConcurrentMark::_has_overflown
  cm_has_aborted,    \* G1SemeruConcurrentMark::_has_aborted
  concurrent,        \* G1SemeruConcurrentMark::_concurrent
  is_serial,         \* the is_serial argument of the marking steps of this run
  next_mark_bitmap,  \* the objects marked in G1SemeruConcurrentMark::_next_mark_bitmap
  should_yield,      \* SuspendibleThreadSet::should_yield()
  alive,             \* alive[r]: addresses marked in region r's alive bitmap
  target_obj_queue,  \* target_obj_queue[r]
  region_mark_stats, \* _region_mark_stats[r]._live_words
  chunk_list,        \* G1SemeruCMMarkStack::_chunk_list
  free_list,         \* G1SemeruCMMarkStack::_free_list
  hwm,               \* G1SemeruCMMarkStack::_hwm
  chunk_capacity,    \* G1SemeruCMMarkStack::_chunk_capacity
  chunks_in_chunk_list,
  chunk_data,        \* chunk_data[c]: TaskQueueEntryChunk::data of _base[c]
  barrier,           \* the two WorkGangBarrierSync objects
  pc,                \* where each worker is
  site,              \* which call of the drain pair a worker is in
  curr_region,       \* G1SemeruCMTask::_curr_region
  alive_bitmap,      \* G1SemeruCMTask::_alive_bitmap (the region it belongs to)
  task_aborted,      \* G1SemeruCMTask::_has_aborted
  has_timed_out,     \* G1SemeruCMTask::_has_timed_out
  task_queue,        \* G1SemeruCMTask::_semeru_task_queue
  cache,             \* G1SemeruCMTask::_mark_stats_cache
  old_finger,        \* claim_region's local old_finger
  fatal,             \* a guarantee() failed or the VM crashed
  hist,              \* history of the run (what the claims talk about)
  spc,               \* SpecStack: where each thread is in par_push_chunk / par_pop_chunk
  sbuf,              \* SpecStack: the caller's ptr_arr of each thread
  schunk,            \* SpecStack: the chunk pointer a thread holds
  scopied,           \* SpecStack: entries copied so far by the running Copy
  sops,              \* SpecStack: operations started so far
  hr_next,           \* SemeruHeapRegion::_next of every region
  hr_prev,           \* SemeruHeapRegion::_prev
  hr_containing_set, \* SemeruHeapRegion::_containing_set (a list, or NULL)
  free_lists,        \* the FreeSemeruRegionList objects: _head, _tail, _length, _last
  lop,               \* SpecList: the last call made on a list, and its result
  root_regions,      \* G1SemeruCMRootRegions::_root_regions[0 .. _num_root_regions - 1]
  claimed_root_regions, \* G1SemeruCMRootRegions::_claimed_root_regions
  scan_in_progress,  \* G1SemeruCMRootRegions::_scan_in_progress
  should_abort,      \* G1SemeruCMRootRegions::_should_abort
  RootRegionScan_lock, \* the monitor: its owner and the threads waiting on it
  rpc,               \* SpecRoot: where each thread is
  rlocal,            \* SpecRoot: the locals and the result of each thread's call
  rhist,             \* SpecRoot: history of the scan
  satb_queue,        \* the SATB queue of every thread (G1ThreadLocalData::satb_mark_queue)
  claimed_threads,   \* the threads whose claim_oops_do has succeeded in this remark
  threads_do_next,   \* the thread each remark worker's Threads::threads_do visits next
  vm_pc,             \* SpecRemark: where the VM thread is in finalize_marking
  clk                \* SpecClock: the inputs and the result of the regular_clock_call made

stackVars == <<chunk_list, free_list, hwm, chunk_capacity, chunks_in_chunk_list, chunk_data>>
threadVars == <<spc, sbuf, schunk, scopied, sops>>
listVars == <<hr_next, hr_prev, hr_containing_set, free_lists, lop>>
rootVars == <<root_regions, claimed_root_regions, scan_in_progress, should_abort,
              RootRegionScan_lock, rpc, rlocal, rhist>>
markVars == <<layout, max_elems, entries_per_chunk, is_serial, next_mark_bitmap, restart_for_overflow, finger, has_overflown, cm_has_aborted, concurrent, should_yield, alive,
              target_obj_queue, region_mark_stats, barrier, pc, site, curr_region,
              alive_bitmap, task_aborted, has_timed_out, task_queue, cache,
              old_finger, fatal>>
remarkVars == <<satb_queue, claimed_threads, threads_do_next, vm_pc>>
vars == <<markVars, stackVars, threadVars, listVars, rootVars, remarkVars, clk, hist>>

(***************************************************************************)
(* Region attributes.                                                      *)
(***************************************************************************)
Kind(r) == layout.kind[r]
is_humongous(r) == Kind(r) \in {"hs", "hc"}
is_starts_humongous(r) == Kind(r) = "hs"

\* next_top_at_mark_start() > bottom()
NtamsAboveBottom(r) == Kind(r) # "empty"

\* HeapRegion::mem_server_cset_next()
RECURSIVE IndexIn(_, _, _)
IndexIn(seq, x, i) ==
  IF i > Len(seq) THEN 0 ELSE IF seq[i] = x THEN i ELSE IndexIn(seq, x, i + 1)

\* A faulty chain whose last region links back to the first.
mem_server_cset_next_wrap(r) ==
  LET i == IndexIn(layout.chain, r, 1)
  IN IF i = 0 THEN NULL
     ELSE IF i = Len(layout.chain) THEN layout.chain[1] ELSE layout.chain[i + 1]

mem_server_cset_next(r) ==
  LET i == IndexIn(layout.chain, r, 1)
  IN IF i = 0 \/ i = Len(layout.chain) THEN NULL ELSE layout.chain[i + 1]

\* The head of the collection-set chain.
CSetHead == layout.chain[1]

(***************************************************************************)
(* G1RegionMarkStatsCache: a direct-mapped write-back cache of live words. *)
(***************************************************************************)
EmptyCache == [i \in 0 .. (CacheSize - 1) |-> [region |-> NULL, live |-> 0]]

\* evict(idx): fold the entry into the shared array, clear the entry
EvictStats(c, stats, i) ==
  IF c[i].live # 0
  THEN [stats EXCEPT ![c[i].region] = @ + c[i].live]
  ELSE stats

\* add_live_words(region_idx, live_words), returned as <<cache', stats'>>
AddLiveWords(c, stats, r, words) ==
  LET i == r % CacheSize
      miss == c[i].region # r
      stats1 == IF miss THEN EvictStats(c, stats, i) ELSE stats
      base == IF miss THEN 0 ELSE c[i].live
  IN <<[c EXCEPT ![i] = [region |-> r, live |-> base + words]], stats1>>

\* evict_all(), the shared array afterwards
RECURSIVE EvictAllStats(_, _, _)
EvictAllStats(c, stats, i) ==
  IF i >= CacheSize THEN stats
  ELSE EvictAllStats(c, EvictStats(c, stats, i), i + 1)

\* Live words a cache holds for region r.
CachedLive(c, r) == IF c[r % CacheSize].region = r THEN c[r % CacheSize].live ELSE 0

(***************************************************************************)
(* G1SemeruCMMarkStack: the chunk list, the free list and the backing      *)
(* array.  Chunk c is _base[c - 1].                                        *)
(***************************************************************************)
ChunkIds == 1 .. (MarkStackChunksMax + 1)
EmptyBuffer == [i \in 1 .. entries_per_chunk |-> NULL]

\* add_chunk_to_list: elem->next = *list; *list = elem
add_chunk_to_list(list, elem) == <<elem>> \o list

\* A faulty remove_chunk_from_list that returns the head without unlinking it.
remove_chunk_from_list_keep(list) ==
  IF list = << >> THEN <<NULL, list>> ELSE <<Head(list), list>>

\* remove_chunk_from_list, as <<result, list'>>
remove_chunk_from_list(list) ==
  IF list = << >> THEN <<NULL, list>> ELSE <<Head(list), Tail(list)>>

(***************************************************************************)
(* The part of the state one marking operation of worker w works on, as a  *)
(* record, so that the closures below are functions from record to record. *)
(* ret is the C++ return value of the last call.                           *)
(***************************************************************************)
MarkRec(w) ==
  [tq |-> task_queue[w], alive |-> alive, cache |-> cache[w],
   stats |-> region_mark_stats, cl |-> chunk_list, fl |-> free_list,
   hwm |-> hwm, cdata |-> chunk_data, ncl |-> chunks_in_chunk_list,
   ov |-> has_overflown, ab |-> task_aborted[w], fatal |-> fatal,
   pushed |-> hist.pushed, scanned |-> hist.scanned, dropped |-> hist.dropped,
   ret |-> FALSE]

\* A faulty par_push_chunk that gives up on a full backing array before it
\* has looked at the free list.
par_push_chunk_hwm_first(m, buf) ==
  LET fromFree == m.fl # << >>
      c == IF fromFree THEN Head(m.fl) ELSE m.hwm + 1
  IN IF m.hwm >= chunk_capacity
     THEN [m EXCEPT !.ret = FALSE]
     ELSE [m EXCEPT !.fl = IF fromFree THEN Tail(@) ELSE @,
                    !.hwm = IF fromFree THEN @ ELSE @ + 1,
                    !.cdata = [@ EXCEPT ![c] = buf],
                    !.cl = add_chunk_to_list(@, c),
                    !.ncl = @ + 1,
                    !.ret = TRUE]

\* par_push_chunk with its lock-protected steps taken together
par_push_chunk(m, buf) ==
  LET fromFree == m.fl # << >>
      c == IF fromFree THEN Head(m.fl) ELSE m.hwm + 1
  IN IF ~fromFree /\ m.hwm >= chunk_capacity
     THEN [m EXCEPT !.ret = FALSE]
     ELSE [m EXCEPT !.fl = IF fromFree THEN Tail(@) ELSE @,
                    !.hwm = IF fromFree THEN @ ELSE @ + 1,
                    !.cdata = [@ EXCEPT ![c] = buf],
                    !.cl = add_chunk_to_list(@, c),
                    !.ncl = @ + 1,
                    !.ret = TRUE]

\* par_pop_chunk with its lock-protected steps taken together; the batch is
\* returned in ret (the empty sequence when the chunk list is empty)
par_pop_chunk(m) ==
  IF m.cl = << >> THEN [m EXCEPT !.ret = << >>]
  ELSE LET c == Head(m.cl)
       IN [m EXCEPT !.cl = Tail(@), !.ncl = @ - 1,
                    !.fl = add_chunk_to_list(@, c), !.ret = m.cdata[c]]

\* G1SemeruConcurrentMark::mark_stack_push: a failed push raises has_overflown
mark_stack_push(m, buf) ==
  LET m1 == par_push_chunk(m, buf)
  IN IF m1.ret THEN m1 ELSE [m1 EXCEPT !.ov = TRUE]

\* The entries of a buffer before its first null entry.
RECURSIVE ValidEntries(_, _)
ValidEntries(buf, i) ==
  IF i > Len(buf) \/ buf[i] = NULL THEN << >>
  ELSE <<buf[i]>> \o ValidEntries(buf, i + 1)

SetOf(seq) == {seq[i] : i \in 1 .. Len(seq)}

\* A faulty move that puts the entries back on the local queue when the
\* global stack refuses them.
move_entries_to_global_stack_undo(m) ==
  LET n == Min(entries_per_chunk, Len(m.tq))
      buffer == [i \in 1 .. entries_per_chunk |->
                   IF i <= n THEN m.tq[Len(m.tq) - i + 1] ELSE NULL]
      m1 == [m EXCEPT !.tq = SubSeq(@, 1, Len(@) - n)]
      m2 == mark_stack_push(m1, buffer)
  IN IF n = 0 THEN m1
     ELSE IF m2.ret THEN m2
     ELSE [m2 EXCEPT !.ab = TRUE, !.tq = m.tq]

move_entries_to_global_stack(m) ==
  LET n == Min(entries_per_chunk, Len(m.tq))
      buffer == [i \in 1 .. entries_per_chunk |->
                   IF i <= n THEN m.tq[Len(m.tq) - i + 1] ELSE NULL]
      m1 == [m EXCEPT !.tq = SubSeq(@, 1, Len(@) - n)]
      m2 == mark_stack_push(m1, buffer)
  IN IF n = 0 THEN m1
     ELSE IF m2.ret THEN m2
     ELSE [m2 EXCEPT !.ab = TRUE, !.dropped = @ \cup SetOf(ValidEntries(buffer, 1))]

\* G1SemeruCMTask::push
push(m, entry) ==
  IF Len(m.tq) < max_elems
  THEN [m EXCEPT !.tq = Append(@, entry)]
  ELSE LET m1 == move_entries_to_global_stack(m)
       IN IF Len(m1.tq) < max_elems
          THEN [m1 EXCEPT !.tq = Append(@, entry)]
          ELSE [m1 EXCEPT !.dropped = @ \cup {entry}]

\* obj at or above the NTAMS of region r
obj_allocated_since_next_marking(r, o) ==
  \/ ObjRegion(o) > r
  \/ ObjRegion(o) = r /\ (o = 10 \/ Kind(r) = "empty")

\* A faulty mark_in_alive_bitmap that adds to the liveness whether or not
\* par_mark set the bit.
mark_in_alive_bitmap_always_count(m, w, obj) ==
  IF obj_allocated_since_next_marking(curr_region[w], obj)
  THEN [m EXCEPT !.ret = FALSE]
  ELSE LET bm == alive_bitmap[w]
           success == obj \notin m.alive[bm]
           cs == AddLiveWords(m.cache, m.stats, ObjRegion(obj), ObjSize(obj))
       IN [m EXCEPT !.alive = [@ EXCEPT ![bm] = @ \cup {obj}],
                    !.cache = cs[1], !.stats = cs[2], !.ret = success]

mark_in_alive_bitmap(m, w, obj) ==
  IF obj_allocated_since_next_marking(curr_region[w], obj)
  THEN [m EXCEPT !.ret = FALSE]
  ELSE LET bm == alive_bitmap[w]
           success == obj \notin m.alive[bm]
           cs == AddLiveWords(m.cache, m.stats, ObjRegion(obj), ObjSize(obj))
       IN IF success
          THEN [m EXCEPT !.alive = [@ EXCEPT ![bm] = @ \cup {obj}],
                         !.cache = cs[1], !.stats = cs[2], !.ret = TRUE]
          ELSE [m EXCEPT !.ret = FALSE]

\* A faulty make_reference_alive that pushes whatever par_mark returned.
make_reference_alive_always_push(m, w, obj) ==
  LET m1 == mark_in_alive_bitmap(m, w, obj)
  IN [push([m1 EXCEPT !.pushed = [@ EXCEPT ![obj] = Min(@ + 1, 2)]], obj)
        EXCEPT !.ret = TRUE]

make_reference_alive(m, w, obj) ==
  LET m1 == mark_in_alive_bitmap(m, w, obj)
  IN IF ~m1.ret THEN m1
     ELSE IF IsTypeArray(obj) THEN [m1 EXCEPT !.ret = TRUE]
     ELSE [push([m1 EXCEPT !.pushed = [@ EXCEPT ![obj] = Min(@ + 1, 2)]], obj)
             EXCEPT !.ret = TRUE]

\* A faulty deal_with_reference without the test of the current region.
deal_with_reference_any_region(m, w, obj) ==
  IF obj = NULL THEN [m EXCEPT !.ret = FALSE]
  ELSE IF curr_region[w] = NULL THEN [m EXCEPT !.fatal = TRUE, !.ret = FALSE]
  ELSE make_reference_alive(m, w, obj)

\* deal_with_reference, given the referent loaded from the slot.  With no
\* current region the load of _curr_region's bounds is a null dereference.
deal_with_reference(m, w, obj) ==
  IF obj = NULL THEN [m EXCEPT !.ret = FALSE]
  ELSE IF curr_region[w] = NULL THEN [m EXCEPT !.fatal = TRUE, !.ret = FALSE]
  ELSE IF ObjRegion(obj) # curr_region[w] THEN [m EXCEPT !.ret = FALSE]
  ELSE make_reference_alive(m, w, obj)

RECURSIVE oop_iterate(_, _, _, _)
oop_iterate(m, w, fields, i) ==
  IF i > Len(fields) \/ m.fatal THEN m
  ELSE oop_iterate(deal_with_reference(m, w, fields[i]), w, fields, i + 1)

\* scan_task_entry / process_grey_task_entry<true> of an object entry
scan_task_entry(m, w, obj) ==
  oop_iterate([m EXCEPT !.scanned = [@ EXCEPT ![obj] = Min(@ + 1, 2)]],
              w, Fields(obj), 1)

\* _semeru_task_queue->pop_local
pop_local_entry(tq) == tq[Len(tq)]

(***************************************************************************)
(* The marking phase.                                                      *)
(***************************************************************************)
EmptyBarrier == [n_completed |-> 0, should_reset |-> FALSE, aborted |-> FALSE]

\* The sizes of the build: the task queues' capacity and the chunk size.
InitSizes ==
  /\ max_elems = QueueMaxElems
  /\ entries_per_chunk = EntriesPerChunk

InitStack ==
  /\ chunk_list = << >>
  /\ free_list = << >>
  /\ hwm = 0
  /\ chunk_capacity = MarkStackChunks
  /\ chunks_in_chunk_list = 0
  /\ chunk_data = [c \in ChunkIds |-> EmptyBuffer]

InitThreadsIdle ==
  /\ spc = [t \in 1 .. StackThreads |-> "off"]
  /\ sbuf = [t \in 1 .. StackThreads |-> EmptyBuffer]
  /\ schunk = [t \in 1 .. StackThreads |-> NULL]
  /\ scopied = [t \in 1 .. StackThreads |-> 0]
  /\ sops = 0

(***************************************************************************)
(* FreeSemeruRegionList: regions linked by _next and _prev in ascending     *)
(* hrm_index order.  Region hr of the model has hrm_index hr - 1, so that   *)
(* index 0 exists and NULL is no region.                                    *)
(***************************************************************************)
HeapRegions == 1 .. MaxHeapRegions
ListIds == 1 .. 2
hrm_index(hr) == hr - 1

\* FreeSemeruRegionList::clear
clear(list) == [list EXCEPT !.length = 0, !.head = NULL, !.tail = NULL, !.last = NULL]

EmptyList == [length |-> 0, head |-> NULL, tail |-> NULL, last |-> NULL]

NoCall == [op |-> "none", self |-> NULL, a |-> NULL, b |-> NULL, ret |-> NULL, n |-> 0]

\* No region is on a list.
InitListsIdle ==
  /\ hr_next = [hr \in HeapRegions |-> NULL]
  /\ hr_prev = [hr \in HeapRegions |-> NULL]
  /\ hr_containing_set = [hr \in HeapRegions |-> NULL]
  /\ free_lists = [l \in ListIds |-> EmptyList]
  /\ lop = NoCall

\* The threads of SpecRoot: the scan workers, the callers of
\* wait_until_scan_finished, the thread running scan_root_regions and a
\* thread calling cancel_scan.
Scanners == 1 .. NumScanners
Waiters == (NumScanners + 1) .. (NumScanners + NumWaiters)
Coordinator == NumScanners + NumWaiters + 1
Canceller == NumScanners + NumWaiters + 2
RootThreads == 1 .. (NumScanners + NumWaiters + 2)
RootCandidates == 1 .. MaxRootRegions

\* claim_next: returned tells that the call is over and hr what it returned;
\* called and cancelled tell what had happened when the call began.
\* wait_until_scan_finished: ret is what it returned.
NoLocal == [claimed_index |-> NULL, returned |-> FALSE, hr |-> NULL,
            ret |-> "none", called |-> "none", cancelled |-> FALSE]

InitRootHist ==
  [returned |-> [hr \in RootCandidates |-> 0], prepared |-> FALSE,
   notified |-> FALSE, cancelled |-> FALSE, aborted |-> FALSE]

\* G1SemeruCMRootRegions::G1SemeruCMRootRegions, no thread started
InitRootIdle ==
  /\ root_regions = << >>
  /\ claimed_root_regions = 0
  /\ scan_in_progress = FALSE
  /\ should_abort = FALSE
  /\ RootRegionScan_lock = [owner |-> NULL, waiting |-> {}]
  /\ rpc = [t \in RootThreads |-> "idle"]
  /\ rlocal = [t \in RootThreads |-> NoLocal]
  /\ rhist = InitRootHist

SatbThreads == 1 .. NumSatbThreads

\* No remark has started.
InitRemarkIdle ==
  /\ satb_queue = [t \in SatbThreads |-> << >>]
  /\ claimed_threads = {}
  /\ threads_do_next = [w \in Workers |-> 1]
  /\ vm_pc = "idle"

\* No clock call has been made.
NoClock ==
  [called |-> FALSE, w |-> NULL, ret |-> FALSE,
   in |-> [has_aborted |-> FALSE, has_overflown |-> FALSE, concurrent |-> FALSE,
           cm_has_aborted |-> FALSE, should_yield |-> FALSE,
           elapsed_over_target |-> FALSE, draining_satb_buffers |-> FALSE,
           process_completed_buffers |-> FALSE]]

InitHist ==
  [pushed |-> [o \in Objects |-> 0], scanned |-> [o \in Objects |-> 0],
   dropped |-> {}, claimed |-> [r \in Regions |-> 0], lost |-> {},
   faulted |-> FALSE, overflowed |-> FALSE, restarted |-> FALSE,
   lost_cas |-> FALSE, pushes |-> {}, pops |-> {}, repopped |-> FALSE]

\* The state when G1SemeruCMConcurrentMarkingTask is handed to the gang:
\* semeru_concurrent_marking() has cleared _restart_for_overflow, which only
\* remark() sets, and reset() has run, which clears the statistics and leaves
\* the finger at _heap.start().  A humongous object marked before the concurrent phase was
\* marked by mark_in_alive_bitmap, the only writer of the bitmap, which
\* counts its words with the bit.
\* The marker before the workers start.
InitMarking ==
  /\ layout \in Layouts
  /\ restart_for_overflow = FALSE
  /\ is_serial = FALSE
  /\ next_mark_bitmap = {}
  /\ finger = HeapStart
  /\ has_overflown = FALSE
  /\ cm_has_aborted = FALSE
  /\ concurrent = TRUE
  /\ should_yield = FALSE
  /\ alive = [r \in Regions |->
                IF layout.premarked /\ Kind(r) = "hs" THEN {BottomObj(r)} ELSE {}]
  /\ target_obj_queue = [r \in Regions |-> InitialTargetQueue(r)]
  /\ region_mark_stats = [r \in Regions |->
                            IF layout.premarked /\ Kind(r) = "hs"
                            THEN ObjSize(BottomObj(r)) ELSE 0]
  /\ InitStack
  /\ barrier = [b \in 1 .. 2 |-> EmptyBarrier]
  /\ pc = [w \in Workers |-> "idle"]
  /\ site = [w \in Workers |-> "A"]
  /\ curr_region = [w \in Workers |-> NULL]
  /\ alive_bitmap = [w \in Workers |-> NULL]
  /\ task_aborted = [w \in Workers |-> FALSE]
  /\ has_timed_out = [w \in Workers |-> FALSE]
  /\ task_queue = [w \in Workers |-> << >>]
  /\ cache = [w \in Workers |-> EmptyCache]
  /\ old_finger = [w \in Workers |-> NULL]
  /\ fatal = FALSE
  /\ hist = InitHist
  /\ InitThreadsIdle
  /\ InitListsIdle
  /\ InitRootIdle
  /\ InitRemarkIdle
  /\ clk = NoClock

Init == InitSizes /\ InitMarking

\* What one marking operation of worker w leaves behind; rec is its result,
\* computed once.
Commit(rec, w, h) ==
  \E m \in {rec} :
  /\ task_queue' = [task_queue EXCEPT ![w] = m.tq]
  /\ alive' = m.alive
  /\ cache' = [cache EXCEPT ![w] = m.cache]
  /\ region_mark_stats' = m.stats
  /\ chunk_list' = m.cl
  /\ free_list' = m.fl
  /\ hwm' = m.hwm
  /\ chunk_data' = m.cdata
  /\ chunks_in_chunk_list' = m.ncl
  /\ has_overflown' = m.ov
  /\ task_aborted' = [task_aborted EXCEPT ![w] = m.ab]
  /\ fatal' = m.fatal
  /\ hist' = [h EXCEPT !.pushed = m.pushed, !.scanned = m.scanned,
                       !.dropped = m.dropped,
                       !.overflowed = @ \/ m.ov]

scanVars == <<task_queue, alive, cache, region_mark_stats, chunk_list, free_list,
              hwm, chunk_data, chunks_in_chunk_list, has_overflown, task_aborted,
              fatal, hist>>

Goto(w, label) == pc' = [pc EXCEPT ![w] = label]

\* What the clock sees of the world outside the marker at one call.
ClockOutcomes == {"ok", "timeout", "satb"}

\* A faulty clock that looks at the marker's abort flag before the phase.
regular_clock_call_at_abort_first(in) ==
  IF in.has_aborted THEN [ret |-> FALSE, has_timed_out |-> FALSE]
  ELSE IF in.has_overflown THEN [ret |-> FALSE, has_timed_out |-> FALSE]
  ELSE IF in.cm_has_aborted THEN [ret |-> FALSE, has_timed_out |-> FALSE]
  ELSE IF ~in.concurrent THEN [ret |-> TRUE, has_timed_out |-> FALSE]
  ELSE IF in.should_yield THEN [ret |-> FALSE, has_timed_out |-> FALSE]
  ELSE IF in.elapsed_over_target THEN [ret |-> FALSE, has_timed_out |-> TRUE]
  ELSE IF ~in.draining_satb_buffers /\ in.process_completed_buffers
       THEN [ret |-> FALSE, has_timed_out |-> FALSE]
  ELSE [ret |-> TRUE, has_timed_out |-> FALSE]

\* G1SemeruCMTask::regular_clock_call on what it reads: the value it returns
\* and whether it sets _has_timed_out
regular_clock_call_at(in) ==
  IF in.has_aborted THEN [ret |-> FALSE, has_timed_out |-> FALSE]
  ELSE IF in.has_overflown THEN [ret |-> FALSE, has_timed_out |-> FALSE]
  ELSE IF ~in.concurrent THEN [ret |-> TRUE, has_timed_out |-> FALSE]
  ELSE IF in.cm_has_aborted THEN [ret |-> FALSE, has_timed_out |-> FALSE]
  ELSE IF in.should_yield THEN [ret |-> FALSE, has_timed_out |-> FALSE]
  ELSE IF in.elapsed_over_target THEN [ret |-> FALSE, has_timed_out |-> TRUE]
  ELSE IF ~in.draining_satb_buffers /\ in.process_completed_buffers
       THEN [ret |-> FALSE, has_timed_out |-> FALSE]
  ELSE [ret |-> TRUE, has_timed_out |-> FALSE]

\* What a clock call of a task with abort flag ab reads in the marking
\* phase, where no task drains SATB buffers.
ClockInput(ab, outcome) ==
  [has_aborted |-> ab, has_overflown |-> has_overflown, concurrent |-> concurrent,
   cm_has_aborted |-> cm_has_aborted, should_yield |-> should_yield,
   elapsed_over_target |-> (outcome = "timeout"),
   draining_satb_buffers |-> FALSE,
   process_completed_buffers |-> (outcome = "satb")]

\* regular_clock_call, for a task whose abort flag is ab
regular_clock_call(ab, outcome) == regular_clock_call_at(ClockInput(ab, outcome)).ret

\* the one place of regular_clock_call that sets _has_timed_out
ClockTimesOut(ab, outcome) == regular_clock_call_at(ClockInput(ab, outcome)).has_timed_out

\* the clock was stopped by something outside the marker
ClockFault(ab, outcome) ==
  /\ ~ab /\ ~has_overflown /\ concurrent /\ ~cm_has_aborted /\ ~should_yield
  /\ outcome # "ok"

\* G1SemeruCMConcurrentMarkingTask::work up to its first marking step
WorkStart(w) ==
  /\ ~fatal /\ pc[w] = "idle"
  /\ ~should_yield                      \* SuspendibleThreadSetJoiner
  /\ Goto(w, IF ~cm_has_aborted THEN "step" ELSE "done")
  /\ UNCHANGED <<layout, max_elems, entries_per_chunk, is_serial, next_mark_bitmap, listVars, rootVars, remarkVars, clk, restart_for_overflow, finger, cm_has_aborted, concurrent, should_yield,
                 target_obj_queue, chunk_capacity, barrier, site, curr_region,
                 alive_bitmap, has_timed_out, old_finger, scanVars, threadVars>>

\* do_semeru_marking_step up to its do-while loop
StepStart(w) ==
  /\ ~fatal /\ pc[w] = "step"
  /\ task_aborted' = [task_aborted EXCEPT ![w] = has_overflown]
  /\ has_timed_out' = [has_timed_out EXCEPT ![w] = FALSE]
  /\ Goto(w, "loop_top")
  /\ UNCHANGED <<layout, max_elems, entries_per_chunk, is_serial, next_mark_bitmap, listVars, rootVars, remarkVars, clk, restart_for_overflow, finger, cm_has_aborted, concurrent, should_yield,
                 target_obj_queue, chunk_capacity, barrier, site, curr_region,
                 alive_bitmap, old_finger, task_queue, alive, cache,
                 region_mark_stats, chunk_list, free_list, hwm, chunk_data,
                 chunks_in_chunk_list, has_overflown, fatal, hist, threadVars>>

\* the head of the do-while loop: which branch the held region takes
LoopTop(w) ==
  /\ ~fatal /\ pc[w] = "loop_top"
  /\ LET r == curr_region[w]
     IN IF ~task_aborted[w] /\ r # NULL
        THEN IF is_humongous(r)
             THEN IF is_starts_humongous(r) /\ BottomObj(r) \in alive[alive_bitmap[w]]
                  THEN Goto(w, "hum_scan") /\ UNCHANGED site
                  ELSE Goto(w, "hum_giveup") /\ UNCHANGED site
             ELSE Goto(w, "trim") /\ UNCHANGED site
        ELSE Goto(w, "dl_enter") /\ site' = [site EXCEPT ![w] = "A"]
  /\ UNCHANGED <<layout, max_elems, entries_per_chunk, is_serial, next_mark_bitmap, listVars, rootVars, remarkVars, clk, restart_for_overflow, finger, cm_has_aborted, concurrent, should_yield,
                 target_obj_queue, chunk_capacity, barrier, curr_region,
                 alive_bitmap, has_timed_out, old_finger, scanVars, threadVars>>

\* trim_target_object_queue: one dispatch_reference, or the end of the trim
Trim(w) ==
  /\ ~fatal /\ pc[w] = "trim"
  /\ LET r == curr_region[w]
         q == target_obj_queue[r]
     IN IF q = << >>
        THEN /\ Goto(w, "dl_enter")
             /\ site' = [site EXCEPT ![w] = "A"]
             /\ UNCHANGED <<target_obj_queue, scanVars>>
        ELSE /\ target_obj_queue' = [target_obj_queue EXCEPT ![r] = SubSeq(q, 1, Len(q) - 1)]
             /\ Commit(deal_with_reference(MarkRec(w), w, q[Len(q)]), w, hist)
             /\ UNCHANGED <<pc, site>>
  /\ UNCHANGED <<layout, max_elems, entries_per_chunk, is_serial, next_mark_bitmap, listVars, rootVars, remarkVars, clk, restart_for_overflow, finger, cm_has_aborted, concurrent, should_yield,
                 chunk_capacity, barrier, curr_region, alive_bitmap,
                 has_timed_out, old_finger, threadVars>>

\* semeru_cm_task_do_addr(bottom): the scan of the humongous object
HumScan(w) ==
  /\ ~fatal /\ pc[w] = "hum_scan"
  /\ Commit(scan_task_entry(MarkRec(w), w, BottomObj(curr_region[w])), w, hist)
  /\ Goto(w, "dl_enter")
  /\ site' = [site EXCEPT ![w] = "H"]
  /\ UNCHANGED <<layout, max_elems, entries_per_chunk, is_serial, next_mark_bitmap, listVars, rootVars, remarkVars, clk, restart_for_overflow, finger, cm_has_aborted, concurrent, should_yield,
                 target_obj_queue, chunk_capacity, barrier, curr_region,
                 alive_bitmap, has_timed_out, old_finger, threadVars>>

\* the test of semeru_cm_task_do_addr's result: a scan that was not
\* aborted takes the branch that leaves the marking step at once
HumRet(w) ==
  /\ ~fatal /\ pc[w] = "hum_ret"
  /\ Goto(w, IF ~task_aborted[w] THEN "yield_check" ELSE "hum_giveup")
  /\ UNCHANGED <<layout, max_elems, entries_per_chunk, is_serial, next_mark_bitmap, listVars, rootVars, remarkVars, clk, restart_for_overflow, finger, cm_has_aborted, concurrent, should_yield,
                 target_obj_queue, chunk_capacity, barrier, site, curr_region,
                 alive_bitmap, has_timed_out, old_finger, scanVars, threadVars>>

\* giveup_current_region(); abort_marking_if_regular_check_fail()
HumGiveup(w) ==
  /\ ~fatal /\ pc[w] = "hum_giveup"
  /\ \E outcome \in ClockOutcomes :
       /\ task_aborted' = [task_aborted EXCEPT
                             ![w] = @ \/ ~regular_clock_call(@, outcome)]
       /\ has_timed_out' = [has_timed_out EXCEPT
                              ![w] = @ \/ ClockTimesOut(task_aborted[w], outcome)]
       /\ hist' = [hist EXCEPT !.faulted = @ \/ ClockFault(task_aborted[w], outcome)]
  /\ curr_region' = [curr_region EXCEPT ![w] = NULL]
  /\ Goto(w, "dl_enter")
  /\ site' = [site EXCEPT ![w] = "A"]
  /\ UNCHANGED <<layout, max_elems, entries_per_chunk, is_serial, next_mark_bitmap, listVars, rootVars, remarkVars, clk, restart_for_overflow, finger, cm_has_aborted, concurrent, should_yield,
                 target_obj_queue, chunk_capacity, barrier, alive_bitmap,
                 old_finger, task_queue, alive, cache, region_mark_stats,
                 chunk_list, free_list, hwm, chunk_data, chunks_in_chunk_list,
                 has_overflown, fatal, threadVars>>

\* Variables no marking worker writes outside the overflow reset.
quietVars == <<layout, max_elems, entries_per_chunk, is_serial, next_mark_bitmap, listVars, rootVars, remarkVars, clk, restart_for_overflow, cm_has_aborted, concurrent, should_yield, chunk_capacity,
               barrier, threadVars>>

\* drain_local_queue / drain_global_stack are called with partially = true
\* everywhere but at the end of the step.
Partially(w) == site[w] # "F"

DrainLocalTarget(w) ==
  IF Partially(w)
  THEN Min(max_elems \div 3, GCDrainStackTargetSize)
  ELSE 0

\* Where the drain pair returns to.
AfterDrain(w) ==
  CASE site[w] = "A" -> "claim_loop"
    [] site[w] = "H" -> "hum_ret"
    [] OTHER -> "epilogue"

\* A faulty drain_local_queue that stops at the capacity of the deque
\* instead of the target.
DrainLocal_one_pop(w) ==
  /\ ~fatal /\ pc[w] \in {"dl_enter", "dl_loop", "gdl_enter", "gdl_loop"}
  /\ LET nested == pc[w] \in {"gdl_enter", "gdl_loop"}
         entering == pc[w] \in {"dl_enter", "gdl_enter"}
         back == IF nested THEN "dg_loop" ELSE "dg_enter"
         again == IF nested THEN "gdl_loop" ELSE "dl_loop"
         tq == task_queue[w]
         skip == \/ entering /\ (task_aborted[w] \/ Len(tq) <= DrainLocalTarget(w))
                 \/ tq = << >>
     IN IF skip
        THEN Goto(w, back) /\ UNCHANGED scanVars
        ELSE LET m0 == [MarkRec(w) EXCEPT !.tq = SubSeq(tq, 1, Len(tq) - 1)]
                 m == scan_task_entry(m0, w, pop_local_entry(tq))
             IN /\ Commit(m, w, hist)
                /\ Goto(w, IF Len(m.tq) <= max_elems \/ m.ab
                           THEN back ELSE again)
  /\ UNCHANGED <<quietVars, finger, target_obj_queue, site, curr_region,
                 alive_bitmap, has_timed_out, old_finger>>

\* drain_local_queue: the entry test and one pop_local + scan_task_entry per
\* step.  dl_* is the call made by the marking step, gdl_* the call made
\* inside drain_global_stack.
DrainLocal(w) ==
  /\ ~fatal /\ pc[w] \in {"dl_enter", "dl_loop", "gdl_enter", "gdl_loop"}
  /\ LET nested == pc[w] \in {"gdl_enter", "gdl_loop"}
         entering == pc[w] \in {"dl_enter", "gdl_enter"}
         back == IF nested THEN "dg_loop" ELSE "dg_enter"
         again == IF nested THEN "gdl_loop" ELSE "dl_loop"
         tq == task_queue[w]
         skip == \/ entering /\ (task_aborted[w] \/ Len(tq) <= DrainLocalTarget(w))
                 \/ tq = << >>
     IN IF skip
        THEN Goto(w, back) /\ UNCHANGED scanVars
        ELSE LET m0 == [MarkRec(w) EXCEPT !.tq = SubSeq(tq, 1, Len(tq) - 1)]
                 m == scan_task_entry(m0, w, pop_local_entry(tq))
             IN /\ Commit(m, w, hist)
                /\ Goto(w, IF Len(m.tq) <= DrainLocalTarget(w) \/ m.ab
                           THEN back ELSE again)
  /\ UNCHANGED <<quietVars, finger, target_obj_queue, site, curr_region,
                 alive_bitmap, has_timed_out, old_finger>>

\* get_entries_from_global_stack: every entry before the first null one is
\* pushed on the deque; a push on a full deque is lost
RECURSIVE PushAll(_, _, _)
PushAll(m, entries, i) ==
  IF i > Len(entries) THEN m
  ELSE PushAll(IF Len(m.tq) < max_elems
               THEN [m EXCEPT !.tq = Append(@, entries[i])]
               ELSE [m EXCEPT !.dropped = @ \cup {entries[i]}],
               entries, i + 1)

get_entries_from_global_stack(m) ==
  LET m1 == par_pop_chunk(m)
  IN IF m.cl = << >> THEN [m1 EXCEPT !.ret = FALSE]
     ELSE [PushAll(m1, ValidEntries(m1.ret, 1), 1) EXCEPT !.ret = TRUE]

\* mark_stack_size() and partial_mark_stack_size_target()
mark_stack_size == chunks_in_chunk_list * entries_per_chunk
partial_mark_stack_size_target == chunk_capacity \div 3

\* drain_global_stack: its abort test on entry
DrainGlobalEnter(w) ==
  /\ ~fatal /\ pc[w] = "dg_enter"
  /\ Goto(w, IF task_aborted[w] THEN AfterDrain(w) ELSE "dg_loop")
  /\ UNCHANGED <<quietVars, finger, target_obj_queue, site, curr_region,
                 alive_bitmap, has_timed_out, old_finger, scanVars>>

\* drain_global_stack: one turn of its loop
DrainGlobalLoop(w) ==
  /\ ~fatal /\ pc[w] = "dg_loop"
  /\ LET m == get_entries_from_global_stack(MarkRec(w))
         more == IF Partially(w)
                 THEN ~task_aborted[w] /\ mark_stack_size > partial_mark_stack_size_target
                 ELSE ~task_aborted[w]
     IN IF more /\ m.ret
        THEN Commit(m, w, hist) /\ Goto(w, "gdl_enter")
        ELSE Goto(w, AfterDrain(w)) /\ UNCHANGED scanVars
  /\ UNCHANGED <<quietVars, finger, target_obj_queue, site, curr_region,
                 alive_bitmap, has_timed_out, old_finger>>

\* G1SemeruConcurrentMark::out_of_memory_server_cset()
out_of_memory_server_cset == finger = NULL

\* the task's abort flag after abort_marking_if_regular_check_fail()
ClockAbort(w, outcome) ==
  task_aborted[w] \/ ~regular_clock_call(task_aborted[w], outcome)

\* abort_marking_if_regular_check_fail() at the end of one claiming turn
ClaimClock(w, h) ==
  \E outcome \in ClockOutcomes :
    /\ task_aborted' = [task_aborted EXCEPT ![w] = ClockAbort(w, outcome)]
    /\ has_timed_out' = [has_timed_out EXCEPT
                           ![w] = @ \/ ClockTimesOut(task_aborted[w], outcome)]
    /\ hist' = [h EXCEPT !.faulted = @ \/ ClockFault(task_aborted[w], outcome)]

claimVars == <<task_queue, alive, cache, region_mark_stats, chunk_list, free_list,
               hwm, chunk_data, chunks_in_chunk_list, has_overflown>>

\* the test of the claiming loop and, when it passes, the call of
\* claim_region up to its checkpoint of the finger
ClaimLoop(w) ==
  /\ ~fatal /\ pc[w] = "claim_loop"
  /\ IF ~task_aborted[w] /\ ~out_of_memory_server_cset
     THEN old_finger' = [old_finger EXCEPT ![w] = finger] /\ Goto(w, "claim_while")
     ELSE UNCHANGED old_finger /\ Goto(w, "loop_cond")
  /\ UNCHANGED <<quietVars, finger, target_obj_queue, site, curr_region,
                 alive_bitmap, has_timed_out, scanVars>>

\* A faulty claim_region that starts over at the heap start when it finds
\* the finger NULL.
ClaimWhile_wraps(w) ==
  /\ ~fatal /\ pc[w] = "claim_while"
  /\ IF finger # NULL
     THEN Goto(w, "claim_cas") /\ UNCHANGED <<task_aborted, has_timed_out, hist, finger>>
     ELSE Goto(w, "claim_loop") /\ ClaimClock(w, hist) /\ finger' = HeapStart
  /\ UNCHANGED <<quietVars, target_obj_queue, site, curr_region,
                 alive_bitmap, old_finger, claimVars, fatal>>

\* claim_region: the test of while (_finger != NULL); when it fails
\* claim_region returns NULL and the caller runs the clock
ClaimWhile(w) ==
  /\ ~fatal /\ pc[w] = "claim_while"
  /\ IF finger # NULL
     THEN Goto(w, "claim_cas") /\ UNCHANGED <<task_aborted, has_timed_out, hist>>
     ELSE Goto(w, "claim_loop") /\ ClaimClock(w, hist)
  /\ UNCHANGED <<quietVars, finger, target_obj_queue, site, curr_region,
                 alive_bitmap, old_finger, claimVars, fatal>>

\* G1SemeruCMTask::setup_for_region
setup_for_region(w, hr) ==
  /\ curr_region' = [curr_region EXCEPT ![w] = hr]
  /\ alive_bitmap' = [alive_bitmap EXCEPT ![w] = hr]

\* A faulty cmpxchg that stores without comparing.
cmpxchg_blind(exchange, dest, compare) == <<compare, exchange>>

\* Atomic::cmpxchg(end, &_finger, old_finger), as <<result, _finger'>>
cmpxchg(exchange, dest, compare) ==
  IF dest = compare THEN <<dest, exchange>> ELSE <<dest, dest>>

\* claim_region: the compare-and-swap and what follows it, then the
\* caller's setup_for_region and clock call
ClaimCas(w) ==
  /\ ~fatal /\ pc[w] = "claim_cas"
  /\ LET r == old_finger[w]
         end == mem_server_cset_next(r)
         res == cmpxchg(end, finger, old_finger[w])
     IN /\ finger' = res[2]
        /\ IF res[1] = old_finger[w]
           THEN /\ IF NtamsAboveBottom(r)
                   THEN setup_for_region(w, r)
                   ELSE UNCHANGED <<curr_region, alive_bitmap>>
                /\ ClaimClock(w, [hist EXCEPT
                      !.claimed = [@ EXCEPT ![r] = Min(@ + 1, 2)],
                      !.lost = IF NtamsAboveBottom(r) /\ curr_region[w] # NULL
                               THEN @ \cup {curr_region[w]} ELSE @])
                /\ Goto(w, "claim_loop")
                /\ UNCHANGED fatal
           ELSE /\ fatal' = TRUE      \* guarantee(false, ...)
                /\ hist' = [hist EXCEPT !.lost_cas = TRUE]
                /\ UNCHANGED <<curr_region, alive_bitmap, task_aborted,
                               has_timed_out, pc>>
  /\ UNCHANGED <<quietVars, target_obj_queue, site, old_finger, claimVars>>

\* while (_curr_region != NULL && !has_aborted()); past the loop the final
\* drain_local_queue(false) is entered
LoopCond(w) ==
  /\ ~fatal /\ pc[w] = "loop_cond"
  /\ IF curr_region[w] # NULL /\ ~task_aborted[w]
     THEN Goto(w, "loop_top") /\ UNCHANGED site
     ELSE Goto(w, "dl_enter") /\ site' = [site EXCEPT ![w] = "F"]
  /\ UNCHANGED <<quietVars, finger, target_obj_queue, curr_region,
                 alive_bitmap, has_timed_out, old_finger, scanVars>>

\* the end of the marking step: only an aborted task that sees the global
\* overflow enters the restart protocol
Epilogue(w) ==
  /\ ~fatal /\ pc[w] = "epilogue"
  /\ Goto(w, IF task_aborted[w] /\ has_overflown
             THEN (IF is_serial THEN "between" ELSE "barrier1_enter")
             ELSE "yield_check")
  /\ UNCHANGED <<quietVars, finger, target_obj_queue, site, curr_region,
                 alive_bitmap, has_timed_out, old_finger, scanVars>>

(***************************************************************************)
(* The overflow restart: two WorkGangBarrierSync barriers with the reset   *)
(* of the global marking state between them.                               *)
(***************************************************************************)
\* WorkGangBarrierSync::enter up to its wait
barrier_enter(b) ==
  LET n == IF b.should_reset THEN 1 ELSE b.n_completed + 1
  IN [b EXCEPT !.n_completed = n,
               !.should_reset = (n = NumWorkers)]

\* the condition on which WorkGangBarrierSync::enter stops waiting
barrier_released(b) == b.n_completed = NumWorkers \/ b.aborted

\* WorkGangBarrierSync::abort
barrier_abort(b) == [b EXCEPT !.aborted = TRUE]

\* enter_first_sync_barrier / enter_second_sync_barrier: leave the
\* suspendible thread set and enter the barrier
BarrierEnter(w) ==
  /\ ~fatal /\ pc[w] \in {"barrier1_enter", "barrier2_enter"}
  /\ LET i == IF pc[w] = "barrier1_enter" THEN 1 ELSE 2
     IN /\ barrier' = [barrier EXCEPT ![i] = barrier_enter(@)]
        /\ Goto(w, IF i = 1 THEN "barrier1_wait" ELSE "barrier2_wait")
  /\ UNCHANGED <<layout, max_elems, entries_per_chunk, is_serial, next_mark_bitmap, listVars, rootVars, remarkVars, clk, restart_for_overflow, cm_has_aborted, concurrent, should_yield, chunk_capacity,
                 threadVars, finger, target_obj_queue, site, curr_region,
                 alive_bitmap, has_timed_out, old_finger, scanVars>>

\* the wait of the barrier ends and the worker joins the suspendible
\* thread set again; the result of enter() is not used
BarrierWait(w) ==
  /\ ~fatal /\ pc[w] \in {"barrier1_wait", "barrier2_wait"}
  /\ LET i == IF pc[w] = "barrier1_wait" THEN 1 ELSE 2
     IN /\ barrier_released(barrier[i])
        /\ concurrent => ~should_yield    \* SuspendibleThreadSetLeaver(concurrent())
        /\ Goto(w, IF i = 1 THEN "between" ELSE "yield_check")
  /\ UNCHANGED <<quietVars, finger, target_obj_queue, site, curr_region,
                 alive_bitmap, has_timed_out, old_finger, scanVars>>

\* G1SemeruCMMarkStack::expand: the capacity afterwards
expand(capacity) ==
  IF capacity = MarkStackChunksMax THEN capacity
  ELSE Min(capacity * 2, MarkStackChunksMax)

\* G1RegionMarkStats::clear_during_overflow: live words are kept, objects
\* are not marked again after an overflow
clear_during_overflow(live_words) == live_words

\* A faulty reset_marking_for_restart that leaves the per-worker queues alone.
reset_marking_for_restart_keep_queues(stats) ==
  /\ chunks_in_chunk_list' = 0
  /\ hwm' = 0
  /\ chunk_list' = << >>
  /\ free_list' = << >>
  /\ chunk_capacity' = IF has_overflown THEN expand(chunk_capacity) ELSE chunk_capacity
  /\ chunk_data' = IF has_overflown /\ expand(chunk_capacity) # chunk_capacity
                   THEN [c \in ChunkIds |-> EmptyBuffer] ELSE chunk_data
  /\ region_mark_stats' = IF has_overflown
                          THEN [r \in Regions |-> clear_during_overflow(stats[r])]
                          ELSE stats
  /\ has_overflown' = FALSE
  /\ finger' = HeapStart
  /\ task_queue' = task_queue

\* G1SemeruConcurrentMark::reset_marking_for_restart, applied to the live
\* words stats holds at the call
reset_marking_for_restart(stats) ==
  /\ chunks_in_chunk_list' = 0
  /\ hwm' = 0
  /\ chunk_list' = << >>
  /\ free_list' = << >>
  /\ chunk_capacity' = IF has_overflown THEN expand(chunk_capacity) ELSE chunk_capacity
  /\ chunk_data' = IF has_overflown /\ expand(chunk_capacity) # chunk_capacity
                   THEN [c \in ChunkIds |-> EmptyBuffer] ELSE chunk_data
  /\ region_mark_stats' = IF has_overflown
                          THEN [r \in Regions |-> clear_during_overflow(stats[r])]
                          ELSE stats
  /\ has_overflown' = FALSE
  /\ finger' = HeapStart
  /\ task_queue' = [v \in Workers |-> << >>]

\* A faulty reset between the barriers that does not look at the phase.
Between_any_phase(w) ==
  /\ ~fatal /\ pc[w] = "between"
  /\ curr_region' = [curr_region EXCEPT ![w] = NULL]
  /\ cache' = [cache EXCEPT ![w] = EmptyCache]
  /\ LET flushed == EvictAllStats(cache[w], region_mark_stats, 0)
     IN IF ~is_serial /\ w = 0
        THEN /\ reset_marking_for_restart(flushed)
             /\ hist' = [hist EXCEPT !.restarted = TRUE,
                                     !.claimed = [r \in Regions |-> 0]]
        ELSE /\ region_mark_stats' = flushed
             /\ UNCHANGED <<chunks_in_chunk_list, hwm, chunk_list, free_list,
                            chunk_capacity, chunk_data, has_overflown, finger,
                            task_queue, hist>>
  /\ Goto(w, IF is_serial THEN "yield_check" ELSE "barrier2_enter")
  /\ UNCHANGED <<layout, max_elems, entries_per_chunk, is_serial, next_mark_bitmap, listVars, rootVars, remarkVars, clk, restart_for_overflow, cm_has_aborted, concurrent, should_yield, barrier,
                 threadVars, target_obj_queue, site, alive_bitmap, alive,
                 task_aborted, has_timed_out, old_finger, fatal>>

\* between the barriers: clear_region_fields, flush_mark_stats_cache and,
\* for worker 0 of a parallel step in the concurrent phase,
\* reset_marking_for_restart
Between(w) ==
  /\ ~fatal /\ pc[w] = "between"
  /\ curr_region' = [curr_region EXCEPT ![w] = NULL]
  /\ cache' = [cache EXCEPT ![w] = EmptyCache]
  /\ LET flushed == EvictAllStats(cache[w], region_mark_stats, 0)
     IN IF ~is_serial /\ concurrent /\ w = 0
        THEN /\ reset_marking_for_restart(flushed)
             /\ hist' = [hist EXCEPT !.restarted = TRUE,
                                     !.claimed = [r \in Regions |-> 0]]
        ELSE /\ region_mark_stats' = flushed
             /\ UNCHANGED <<chunks_in_chunk_list, hwm, chunk_list, free_list,
                            chunk_capacity, chunk_data, has_overflown, finger,
                            task_queue, hist>>
  /\ Goto(w, IF is_serial THEN "yield_check" ELSE "barrier2_enter")
  /\ UNCHANGED <<layout, max_elems, entries_per_chunk, is_serial, next_mark_bitmap, listVars, rootVars, remarkVars, clk, restart_for_overflow, cm_has_aborted, concurrent, should_yield, barrier,
                 threadVars, target_obj_queue, site, alive_bitmap, alive,
                 task_aborted, has_timed_out, old_finger, fatal>>

\* A loop condition that does not look at the marker's abort flag.
WorkLoop_task_only(w) ==
  IF task_aborted[w] THEN "step" ELSE "done"

\* the condition of the do-while loop of work(), as the next position
WorkLoop(w) ==
  IF ~cm_has_aborted /\ task_aborted[w] THEN "step" ELSE "done"

\* do_yield_check() after a marking step, then the loop condition of work()
YieldCheck(w) ==
  /\ ~fatal /\ pc[w] = "yield_check"
  /\ Goto(w, IF should_yield THEN "yielding" ELSE WorkLoop(w))
  /\ UNCHANGED <<quietVars, finger, target_obj_queue, site, curr_region,
                 alive_bitmap, has_timed_out, old_finger, scanVars>>

\* SuspendibleThreadSet::yield() returns once the safepoint is over
Yielding(w) ==
  /\ ~fatal /\ pc[w] = "yielding"
  /\ ~should_yield
  /\ Goto(w, WorkLoop(w))
  /\ UNCHANGED <<quietVars, finger, target_obj_queue, site, curr_region,
                 alive_bitmap, has_timed_out, old_finger, scanVars>>

(***************************************************************************)
(* The VM thread.                                                          *)
(***************************************************************************)
\* SuspendibleThreadSet::synchronize() is called: should_yield() turns true
RequestYield ==
  /\ ~fatal /\ ~should_yield
  /\ \E w \in Workers : pc[w] # "done"
  /\ should_yield' = TRUE
  /\ hist' = [hist EXCEPT !.faulted = TRUE]
  /\ UNCHANGED <<layout, max_elems, entries_per_chunk, is_serial, next_mark_bitmap, listVars, rootVars, remarkVars, clk, restart_for_overflow, cm_has_aborted, concurrent, chunk_capacity, barrier,
                 threadVars, finger, target_obj_queue, site, curr_region,
                 alive_bitmap, has_timed_out, old_finger, pc, task_queue, alive,
                 cache, region_mark_stats, chunk_list, free_list, hwm, chunk_data,
                 chunks_in_chunk_list, has_overflown, task_aborted, fatal>>

\* A worker is outside the suspendible thread set or blocked in it.
Suspended(w) ==
  pc[w] \in {"idle", "yielding", "done", "barrier1_wait", "barrier2_wait"}

\* The safepoint runs once every worker is suspended.  A full collection
\* calls concurrent_cycle_abort; then SuspendibleThreadSet::desynchronize().
Safepoint(full) ==
  /\ ~fatal /\ should_yield
  /\ \A w \in Workers : Suspended(w)
  /\ should_yield' = FALSE
  /\ IF full /\ ~cm_has_aborted
     THEN /\ reset_marking_for_restart(region_mark_stats)
          /\ curr_region' = [w \in Workers |-> NULL]
          /\ barrier' = [i \in 1 .. 2 |-> barrier_abort(barrier[i])]
          /\ cm_has_aborted' = TRUE
          /\ next_mark_bitmap' = {}    \* clear_bitmap(_next_mark_bitmap, ...)
          /\ hist' = [hist EXCEPT !.claimed = [r \in Regions |-> 0]]
     ELSE UNCHANGED <<chunks_in_chunk_list, hwm, chunk_list, free_list,
                      chunk_capacity, chunk_data, region_mark_stats, has_overflown,
                      finger, task_queue, curr_region, barrier, cm_has_aborted, hist,
                      next_mark_bitmap>>
  /\ UNCHANGED <<layout, max_elems, entries_per_chunk, is_serial, listVars, rootVars, remarkVars, clk, restart_for_overflow, concurrent, threadVars, target_obj_queue, site,
                 alive_bitmap, alive, cache, task_aborted, has_timed_out,
                 old_finger, pc, fatal>>

Worker(w) ==
  \/ WorkStart(w) \/ StepStart(w) \/ LoopTop(w) \/ Trim(w)
  \/ HumScan(w) \/ HumRet(w) \/ HumGiveup(w)
  \/ DrainLocal(w) \/ DrainGlobalEnter(w) \/ DrainGlobalLoop(w)
  \/ ClaimLoop(w) \/ ClaimWhile(w) \/ ClaimCas(w) \/ LoopCond(w)
  \/ Epilogue(w) \/ BarrierEnter(w) \/ BarrierWait(w) \/ Between(w)
  \/ YieldCheck(w) \/ Yielding(w)

Next ==
  \/ \E w \in Workers : Worker(w)
  \/ RequestYield
  \/ \E full \in BOOLEAN : Safepoint(full)

Spec == Init /\ [][Next]_vars

\* Every worker of the gang keeps running, and a requested safepoint is taken.
FairSpec ==
  /\ Spec
  /\ \A w \in Workers : WF_vars(Worker(w))
  /\ WF_vars(\E full \in BOOLEAN : Safepoint(full))

\* A step of worker w in a run nothing disturbs: no safepoint is requested
\* and the clock finds neither a time-out nor pending SATB buffers.
QuietWorker(w) ==
  /\ \/ WorkStart(w) \/ StepStart(w) \/ LoopTop(w) \/ Trim(w)
     \/ HumScan(w) \/ HumRet(w) \/ HumGiveup(w)
     \/ DrainLocal(w) \/ DrainGlobalEnter(w) \/ DrainGlobalLoop(w)
     \/ ClaimLoop(w) \/ ClaimWhile(w) \/ ClaimCas(w) \/ LoopCond(w)
     \/ Epilogue(w) \/ BarrierEnter(w) \/ BarrierWait(w) \/ Between(w)
     \/ YieldCheck(w)
  /\ ~hist'.faulted

QuietNext == \E w \in Workers : QuietWorker(w)

\* The undisturbed runs, every worker of the gang scheduled again and again.
QuietSpec ==
  /\ Init
  /\ [][QuietNext]_vars
  /\ \A w \in Workers : WF_vars(QuietWorker(w))

(***************************************************************************)
(* SpecStack: G1SemeruCMMarkStack on its own.  Every thread runs           *)
(* par_push_chunk and par_pop_chunk calls; a step is one lock-protected    *)
(* list operation, one read or one atomic add of _hwm, or the copy of one  *)
(* entry.                                                                  *)
(***************************************************************************)
Threads == 1 .. StackThreads

\* The batch the k-th operation hands to par_push_chunk.
Batch(k) == [i \in 1 .. EntriesPerChunk |-> k * EntriesPerChunk + i]

\* A faulty copy that repeats the first entry.
CopyEntry_first(to, from, i) == [to EXCEPT ![i] = from[1]]

\* Copy::conjoint_memory_atomic, one entry of it
CopyEntry(to, from, i) == [to EXCEPT ![i] = from[i]]

\* The stack as expand() leaves it, no call running.
InitS ==
  /\ InitSizes
  /\ layout \in {l \in Layouts : Len(l.chain) = 1}
  /\ restart_for_overflow = FALSE
  /\ is_serial = FALSE
  /\ next_mark_bitmap = {}
  /\ finger = HeapStart
  /\ has_overflown = FALSE
  /\ cm_has_aborted = FALSE
  /\ concurrent = TRUE
  /\ should_yield = FALSE
  /\ alive = [r \in Regions |-> {}]
  /\ target_obj_queue = [r \in Regions |-> << >>]
  /\ region_mark_stats = [r \in Regions |-> 0]
  /\ chunk_list = << >>
  /\ free_list = << >>
  /\ hwm = 0
  /\ chunk_capacity = expand(MarkStackChunks)
  /\ chunks_in_chunk_list = 0
  /\ chunk_data = [c \in ChunkIds |-> EmptyBuffer]
  /\ barrier = [b \in 1 .. 2 |-> EmptyBarrier]
  /\ pc = [w \in Workers |-> "idle"]
  /\ site = [w \in Workers |-> "A"]
  /\ curr_region = [w \in Workers |-> NULL]
  /\ alive_bitmap = [w \in Workers |-> NULL]
  /\ task_aborted = [w \in Workers |-> FALSE]
  /\ has_timed_out = [w \in Workers |-> FALSE]
  /\ task_queue = [w \in Workers |-> << >>]
  /\ cache = [w \in Workers |-> EmptyCache]
  /\ old_finger = [w \in Workers |-> NULL]
  /\ fatal = FALSE
  /\ hist = InitHist
  /\ InitListsIdle
  /\ InitRootIdle
  /\ InitRemarkIdle
  /\ clk = NoClock
  /\ spc = [t \in Threads |-> "ready"]
  /\ sbuf = [t \in Threads |-> EmptyBuffer]
  /\ schunk = [t \in Threads |-> NULL]
  /\ scopied = [t \in Threads |-> 0]
  /\ sops = 0

SGoto(t, label) == spc' = [spc EXCEPT ![t] = label]

\* a thread calls par_push_chunk(ptr_arr)
StartPush(t) ==
  /\ spc[t] = "ready" /\ sops < StackOps
  /\ sops' = sops + 1
  /\ sbuf' = [sbuf EXCEPT ![t] = Batch(sops + 1)]
  /\ SGoto(t, "push_free")
  /\ UNCHANGED <<markVars, listVars, rootVars, remarkVars, clk, stackVars, hist, schunk, scopied>>

\* a thread calls par_pop_chunk(ptr_arr)
StartPop(t) ==
  /\ spc[t] = "ready" /\ sops < StackOps
  /\ sops' = sops + 1
  /\ sbuf' = [sbuf EXCEPT ![t] = EmptyBuffer]
  /\ SGoto(t, "pop_remove")
  /\ UNCHANGED <<markVars, listVars, rootVars, remarkVars, clk, stackVars, hist, schunk, scopied>>

\* par_push_chunk: remove_chunk_from_free_list()
PushFree(t) ==
  /\ spc[t] = "push_free"
  /\ LET res == remove_chunk_from_list(free_list)
     IN /\ free_list' = res[2]
        /\ schunk' = [schunk EXCEPT ![t] = res[1]]
        /\ SGoto(t, IF res[1] # NULL THEN "push_copy" ELSE "push_hwm")
  /\ scopied' = [scopied EXCEPT ![t] = 0]
  /\ UNCHANGED <<markVars, listVars, rootVars, remarkVars, clk, chunk_list, hwm, chunk_capacity, chunks_in_chunk_list,
                 chunk_data, hist, sbuf, sops>>

\* allocate_new_chunk: the unsynchronised read of _hwm
PushHwm(t) ==
  /\ spc[t] = "push_hwm"
  /\ SGoto(t, IF hwm >= chunk_capacity THEN "ready" ELSE "push_add")
  /\ UNCHANGED <<markVars, listVars, rootVars, remarkVars, clk, stackVars, hist, sbuf, schunk, scopied, sops>>

\* A faulty allocation whose test of the index lets the capacity itself pass.
PushAdd_late_test(t) ==
  /\ spc[t] = "push_add"
  /\ hwm' = hwm + 1
  /\ IF hwm > chunk_capacity
     THEN SGoto(t, "ready") /\ UNCHANGED schunk
     ELSE SGoto(t, "push_copy") /\ schunk' = [schunk EXCEPT ![t] = hwm + 1]
  /\ UNCHANGED <<markVars, listVars, rootVars, remarkVars, clk, chunk_list, free_list, chunk_capacity,
                 chunks_in_chunk_list, chunk_data, hist, sbuf, scopied, sops>>

\* allocate_new_chunk: Atomic::add(1u, &_hwm) - 1 and the test of its result
PushAdd(t) ==
  /\ spc[t] = "push_add"
  /\ hwm' = hwm + 1
  /\ IF hwm >= chunk_capacity
     THEN SGoto(t, "ready") /\ UNCHANGED schunk
     ELSE SGoto(t, "push_copy") /\ schunk' = [schunk EXCEPT ![t] = hwm + 1]
  /\ UNCHANGED <<markVars, listVars, rootVars, remarkVars, clk, chunk_list, free_list, chunk_capacity,
                 chunks_in_chunk_list, chunk_data, hist, sbuf, scopied, sops>>

\* par_push_chunk: the copy of ptr_arr into new_chunk->data, one entry
PushCopy(t) ==
  /\ spc[t] = "push_copy"
  /\ chunk_data' = [chunk_data EXCEPT
                      ![schunk[t]] = CopyEntry(@, sbuf[t], scopied[t] + 1)]
  /\ scopied' = [scopied EXCEPT ![t] = @ + 1]
  /\ SGoto(t, IF scopied[t] + 1 = EntriesPerChunk THEN "push_link" ELSE "push_copy")
  /\ UNCHANGED <<markVars, listVars, rootVars, remarkVars, clk, chunk_list, free_list, hwm, chunk_capacity,
                 chunks_in_chunk_list, hist, sbuf, schunk, sops>>

\* par_push_chunk: add_chunk_to_chunk_list(new_chunk); return true
PushLink(t) ==
  /\ spc[t] = "push_link"
  /\ chunk_list' = add_chunk_to_list(chunk_list, schunk[t])
  /\ chunks_in_chunk_list' = chunks_in_chunk_list + 1
  /\ hist' = [hist EXCEPT !.pushes = @ \cup {sbuf[t]}]
  /\ schunk' = [schunk EXCEPT ![t] = NULL]
  /\ SGoto(t, "ready")
  /\ UNCHANGED <<markVars, listVars, rootVars, remarkVars, clk, free_list, hwm, chunk_capacity, chunk_data,
                 sbuf, scopied, sops>>

\* par_pop_chunk: remove_chunk_from_chunk_list()
PopRemove(t) ==
  /\ spc[t] = "pop_remove"
  /\ LET res == remove_chunk_from_list(chunk_list)
     IN /\ chunk_list' = res[2]
        /\ chunks_in_chunk_list' =
             IF res[1] # NULL THEN chunks_in_chunk_list - 1 ELSE chunks_in_chunk_list
        /\ schunk' = [schunk EXCEPT ![t] = res[1]]
        /\ SGoto(t, IF res[1] # NULL THEN "pop_copy" ELSE "ready")
  /\ scopied' = [scopied EXCEPT ![t] = 0]
  /\ UNCHANGED <<markVars, listVars, rootVars, remarkVars, clk, free_list, hwm, chunk_capacity, chunk_data, hist,
                 sbuf, sops>>

\* par_pop_chunk: the copy of cur->data into ptr_arr, one entry
PopCopy(t) ==
  /\ spc[t] = "pop_copy"
  /\ sbuf' = [sbuf EXCEPT ![t] = CopyEntry(@, chunk_data[schunk[t]], scopied[t] + 1)]
  /\ scopied' = [scopied EXCEPT ![t] = @ + 1]
  /\ SGoto(t, IF scopied[t] + 1 = EntriesPerChunk THEN "pop_free" ELSE "pop_copy")
  /\ UNCHANGED <<markVars, listVars, rootVars, remarkVars, clk, stackVars, hist, schunk, sops>>

\* par_pop_chunk: add_chunk_to_free_list(cur); return true
PopFree(t) ==
  /\ spc[t] = "pop_free"
  /\ free_list' = add_chunk_to_list(free_list, schunk[t])
  /\ hist' = [hist EXCEPT !.pops = @ \cup {sbuf[t]},
                          !.repopped = @ \/ sbuf[t] \in hist.pops]
  /\ schunk' = [schunk EXCEPT ![t] = NULL]
  /\ SGoto(t, "ready")
  /\ UNCHANGED <<markVars, listVars, rootVars, remarkVars, clk, chunk_list, hwm, chunk_capacity, chunks_in_chunk_list,
                 chunk_data, sbuf, scopied, sops>>

NextS ==
  \E t \in Threads :
    \/ StartPush(t) \/ StartPop(t)
    \/ PushFree(t) \/ PushHwm(t) \/ PushAdd(t) \/ PushCopy(t) \/ PushLink(t)
    \/ PopRemove(t) \/ PopCopy(t) \/ PopFree(t)

SpecStack == InitS /\ [][NextS]_vars

(***************************************************************************)
(* SpecList: two FreeSemeruRegionList objects and the calls made on them,  *)
(* one call a step (every call runs under the list's lock).  A region's     *)
(* containing set is read under ASSERT only (SemeruHeapRegionSet.cpp:41,   *)
(* SemeruHeapRegionSet.hpp:172-176): it is state of a checked build, and   *)
(* the lists are modelled as that build runs them, the calls being made    *)
(* with the preconditions their assertions state.                          *)
(***************************************************************************)
\* The regions of a set in ascending index order, linked as a list.
Members(asg, l) == {hr \in HeapRegions : asg[hr] = l}
MinOf(S) == CHOOSE x \in S : \A y \in S : x <= y
MaxOf(S) == CHOOSE x \in S : \A y \in S : x >= y
After(S, hr) == {x \in S : x > hr}
Before(S, hr) == {x \in S : x < hr}

\* Two well-formed lists over disjoint sets of regions, no call made yet.
InitL ==
  /\ InitSizes
  /\ \E asg \in [HeapRegions -> {NULL} \cup ListIds] :
       /\ hr_containing_set = asg
       /\ hr_next = [hr \in HeapRegions |->
                       IF asg[hr] = NULL \/ After(Members(asg, asg[hr]), hr) = {}
                       THEN NULL ELSE MinOf(After(Members(asg, asg[hr]), hr))]
       /\ hr_prev = [hr \in HeapRegions |->
                       IF asg[hr] = NULL \/ Before(Members(asg, asg[hr]), hr) = {}
                       THEN NULL ELSE MaxOf(Before(Members(asg, asg[hr]), hr))]
       /\ \E lasts \in [ListIds -> BOOLEAN] :
            free_lists = [l \in ListIds |->
              IF Members(asg, l) = {} THEN EmptyList
              ELSE [length |-> Cardinality(Members(asg, l)),
                    head |-> MinOf(Members(asg, l)),
                    tail |-> MaxOf(Members(asg, l)),
                    last |-> IF lasts[l] THEN MinOf(Members(asg, l)) ELSE NULL]]
  /\ lop = NoCall
  /\ InitRootIdle
  /\ InitRemarkIdle
  /\ clk = NoClock
  /\ layout \in {l \in Layouts : Len(l.chain) = 1}
  /\ restart_for_overflow = FALSE
  /\ is_serial = FALSE
  /\ next_mark_bitmap = {}
  /\ finger = HeapStart
  /\ has_overflown = FALSE
  /\ cm_has_aborted = FALSE
  /\ concurrent = TRUE
  /\ should_yield = FALSE
  /\ alive = [r \in Regions |-> {}]
  /\ target_obj_queue = [r \in Regions |-> << >>]
  /\ region_mark_stats = [r \in Regions |-> 0]
  /\ InitStack
  /\ barrier = [b \in 1 .. 2 |-> EmptyBarrier]
  /\ pc = [w \in Workers |-> "idle"]
  /\ site = [w \in Workers |-> "A"]
  /\ curr_region = [w \in Workers |-> NULL]
  /\ alive_bitmap = [w \in Workers |-> NULL]
  /\ task_aborted = [w \in Workers |-> FALSE]
  /\ has_timed_out = [w \in Workers |-> FALSE]
  /\ task_queue = [w \in Workers |-> << >>]
  /\ cache = [w \in Workers |-> EmptyCache]
  /\ old_finger = [w \in Workers |-> NULL]
  /\ fatal = FALSE
  /\ hist = InitHist
  /\ InitThreadsIdle

\* add_ordered: while (curr_to != NULL && curr_to->hrm_index() < curr_from->hrm_index())
RECURSIVE AdvanceTo(_, _, _)
AdvanceTo(next, curr_to, curr_from) ==
  IF curr_to # NULL /\ hrm_index(curr_to) < hrm_index(curr_from)
  THEN AdvanceTo(next, next[curr_to], curr_from)
  ELSE curr_to

\* A faulty merge step that does not link the predecessor of curr_to to the
\* inserted region.
RECURSIVE MergeLoop_no_relink(_, _, _)
MergeLoop_no_relink(st, curr_to0, curr_from) ==
  IF curr_from = NULL THEN st
  ELSE LET curr_to == AdvanceTo(st.next, curr_to0, curr_from)
       IN IF curr_to = NULL
          THEN [st EXCEPT !.next[st.tail] = curr_from, !.prev[curr_from] = st.tail]
          ELSE LET next_from == st.next[curr_from]
                   p == st.prev[curr_to]
                   st1 == [st EXCEPT !.next[curr_from] = curr_to, !.prev[curr_from] = p]
                   st2 == IF p = NULL THEN [st1 EXCEPT !.head = curr_from] ELSE st1
                   st3 == [st2 EXCEPT !.prev[curr_to] = curr_from]
               IN MergeLoop_no_relink(st3, curr_to, next_from)

\* add_ordered: while (curr_from != NULL), on st = [next, prev, head, tail]
RECURSIVE MergeLoop(_, _, _)
MergeLoop(st, curr_to0, curr_from) ==
  IF curr_from = NULL THEN st
  ELSE LET curr_to == AdvanceTo(st.next, curr_to0, curr_from)
       IN IF curr_to = NULL
          THEN \* the rest of the from list is added as tail
               [st EXCEPT !.next[st.tail] = curr_from, !.prev[curr_from] = st.tail]
          ELSE LET next_from == st.next[curr_from]
                   p == st.prev[curr_to]
                   st1 == [st EXCEPT !.next[curr_from] = curr_to, !.prev[curr_from] = p]
                   st2 == IF p = NULL THEN [st1 EXCEPT !.head = curr_from]
                          ELSE [st1 EXCEPT !.next[p] = curr_from]
                   st3 == [st2 EXCEPT !.prev[curr_to] = curr_from]
               IN MergeLoop(st3, curr_to, next_from)

\* The regions reached from hr along _next, in order.
RECURSIVE Walk(_, _)
Walk(next, hr) == IF hr = NULL THEN << >> ELSE <<hr>> \o Walk(next, next[hr])

\* The regions reached from hr along _prev, in order.
RECURSIVE WalkBack(_, _)
WalkBack(prev, hr) == IF hr = NULL THEN << >> ELSE <<hr>> \o WalkBack(prev, prev[hr])

nonListVars == <<markVars, stackVars, threadVars, rootVars, remarkVars, clk, hist>>

Called(op, self, a, b, ret) ==
  lop' = [op |-> op, self |-> self, a |-> a, b |-> b, ret |-> ret, n |-> lop.n + 1]

\* A merge that leaves the containing sets of the regions merged in alone.
RECURSIVE set_containing_set_skipped(_, _, _, _)
set_containing_set_skipped(set, next, hr, list) == set

\* add_ordered: the iteration over from_list that moves each of its regions
\* to the containing set list (through NULL)
RECURSIVE set_containing_set_all(_, _, _, _)
set_containing_set_all(set, next, hr, list) ==
  IF hr = NULL THEN set
  ELSE set_containing_set_all([set EXCEPT ![hr] = list], next, next[hr], list)

\* FreeSemeruRegionList::add_ordered(FreeSemeruRegionList* from_list)
AddOrdered(self, from) ==
  /\ lop.n < ListCalls /\ self # from
  /\ LET to == free_lists[self]
         fl == free_lists[from]
         st0 == [next |-> hr_next, prev |-> hr_prev, head |-> to.head, tail |-> to.tail]
         st1 == IF to.length = 0
                THEN [st0 EXCEPT !.head = fl.head, !.tail = fl.tail]
                ELSE LET m == MergeLoop(st0, to.head, fl.head)
                     IN IF hrm_index(m.tail) < hrm_index(fl.tail)
                        THEN [m EXCEPT !.tail = fl.tail] ELSE m
     IN IF fl.length = 0
        THEN UNCHANGED <<hr_next, hr_prev, hr_containing_set, free_lists>>
        ELSE /\ hr_containing_set' =
                  set_containing_set_all(hr_containing_set, hr_next, fl.head, self)
             /\ hr_next' = st1.next
             /\ hr_prev' = st1.prev
             /\ free_lists' = [free_lists EXCEPT
                   ![self] = [@ EXCEPT !.head = st1.head, !.tail = st1.tail,
                                       !.length = @ + fl.length],
                   ![from] = clear(@)]
  /\ Called("add_ordered", self, from, NULL, Walk(hr_next, free_lists[from].head))
  /\ UNCHANGED nonListVars

\* remove_all: while (curr != NULL), on st = [next, prev, set]
RECURSIVE RemoveAllLoop(_, _)
RemoveAllLoop(st, curr) ==
  IF curr = NULL THEN st
  ELSE RemoveAllLoop([st EXCEPT !.next[curr] = NULL, !.prev[curr] = NULL,
                                !.set[curr] = NULL],
                     st.next[curr])

\* FreeSemeruRegionList::remove_all()
RemoveAll(self) ==
  /\ lop.n < ListCalls
  /\ LET st == RemoveAllLoop([next |-> hr_next, prev |-> hr_prev,
                              set |-> hr_containing_set], free_lists[self].head)
     IN /\ hr_next' = st.next
        /\ hr_prev' = st.prev
        /\ hr_containing_set' = st.set
        /\ free_lists' = [free_lists EXCEPT ![self] = clear(@)]
  /\ Called("remove_all", self, NULL, NULL, NULL)
  /\ UNCHANGED nonListVars

\* SemeruHeapRegionSetBase::remove, on st = [next, prev, set, list]
remove(st, hr) ==
  [st EXCEPT !.set[hr] = NULL, !.list.length = @ - 1]

\* A faulty removal loop that never moves _tail.
RECURSIVE RemoveLoop_keep_tail(_, _, _, _)
RemoveLoop_keep_tail(st, curr, count, num_regions) ==
  IF ~(count < num_regions) THEN st
  ELSE LET next == st.next[curr]
           prev == st.prev[curr]
           st1 == IF prev = NULL THEN [st EXCEPT !.list.head = next]
                  ELSE [st EXCEPT !.next[prev] = next]
           st2 == IF next = NULL THEN st1
                  ELSE [st1 EXCEPT !.prev[next] = prev]
           st3 == IF st2.list.last = curr THEN [st2 EXCEPT !.list.last = NULL] ELSE st2
           st4 == [st3 EXCEPT !.next[curr] = NULL, !.prev[curr] = NULL]
       IN RemoveLoop_keep_tail(remove(st4, curr), next, count + 1, num_regions)

\* remove_starting_at: while (count < num_regions)
RECURSIVE RemoveLoop(_, _, _, _)
RemoveLoop(st, curr, count, num_regions) ==
  IF ~(count < num_regions) THEN st
  ELSE LET next == st.next[curr]
           prev == st.prev[curr]
           st1 == IF prev = NULL THEN [st EXCEPT !.list.head = next]
                  ELSE [st EXCEPT !.next[prev] = next]
           st2 == IF next = NULL THEN [st1 EXCEPT !.list.tail = prev]
                  ELSE [st1 EXCEPT !.prev[next] = prev]
           st3 == IF st2.list.last = curr THEN [st2 EXCEPT !.list.last = NULL] ELSE st2
           st4 == [st3 EXCEPT !.next[curr] = NULL, !.prev[curr] = NULL]
       IN RemoveLoop(remove(st4, curr), next, count + 1, num_regions)

\* FreeSemeruRegionList::remove_starting_at(first, num_regions), called with
\* first on the list and at least num_regions regions from first to the tail
RemoveStartingAt(self, first, num_regions) ==
  /\ lop.n < ListCalls
  /\ num_regions >= 1
  /\ \E i \in 1 .. free_lists[self].length :
       /\ Walk(hr_next, free_lists[self].head)[i] = first
       /\ i + num_regions - 1 <= free_lists[self].length
  /\ LET st == RemoveLoop([next |-> hr_next, prev |-> hr_prev,
                           set |-> hr_containing_set, list |-> free_lists[self]],
                          first, 0, num_regions)
     IN /\ hr_next' = st.next
        /\ hr_prev' = st.prev
        /\ hr_containing_set' = st.set
        /\ free_lists' = [free_lists EXCEPT ![self] = st.list]
  /\ Called("remove_starting_at", self, first, num_regions, NULL)
  /\ UNCHANGED nonListVars

\* A faulty count that leaves out a region whose index is the upper end.
RECURSIVE RangeLoop_exclusive(_, _, _, _, _)
RangeLoop_exclusive(next, cur, start, end, num) ==
  IF cur = NULL THEN num
  ELSE LET index == hrm_index(cur)
       IN IF index >= end THEN num
          ELSE RangeLoop_exclusive(next, next[cur], start, end,
                                   IF index >= start THEN num + 1 ELSE num)

\* num_of_regions_in_range: while (cur != NULL)
RECURSIVE RangeLoop(_, _, _, _, _)
RangeLoop(next, cur, start, end, num) ==
  IF cur = NULL THEN num
  ELSE LET index == hrm_index(cur)
       IN IF index > end THEN num
          ELSE RangeLoop(next, next[cur], start, end,
                         IF index >= start THEN num + 1 ELSE num)

\* FreeSemeruRegionList::num_of_regions_in_range(start, end)
NumOfRegionsInRange(self, start, end) ==
  /\ lop.n < ListCalls
  /\ Called("num_of_regions_in_range", self, start, end,
            RangeLoop(hr_next, free_lists[self].head, start, end, 0))
  /\ UNCHANGED <<hr_next, hr_prev, hr_containing_set, free_lists, nonListVars>>

NextL ==
  \/ \E self, from \in ListIds : AddOrdered(self, from)
  \/ \E self \in ListIds : RemoveAll(self)
  \/ \E self \in ListIds, first \in HeapRegions, num_regions \in 1 .. MaxHeapRegions :
       RemoveStartingAt(self, first, num_regions)
  \/ \E self \in ListIds, start, end \in 0 .. MaxHeapRegions :
       NumOfRegionsInRange(self, start, end)

SpecList == InitL /\ [][NextL]_vars

(***************************************************************************)
(* SpecRoot: one G1SemeruCMRootRegions object through one root-region      *)
(* scan.  The scan workers run claim_next without a lock, one shared read  *)
(* or atomic update a step; notify_scan_done and wait_until_scan_finished  *)
(* go through RootRegionScan_lock.                                         *)
(***************************************************************************)
InitR ==
  /\ InitSizes
  /\ InitRootIdle
  /\ InitRemarkIdle
  /\ clk = NoClock
  /\ InitListsIdle
  /\ layout \in {l \in Layouts : Len(l.chain) = 1}
  /\ restart_for_overflow = FALSE
  /\ is_serial = FALSE
  /\ next_mark_bitmap = {}
  /\ finger = HeapStart
  /\ has_overflown = FALSE
  /\ cm_has_aborted = FALSE
  /\ concurrent = TRUE
  /\ should_yield = FALSE
  /\ alive = [r \in Regions |-> {}]
  /\ target_obj_queue = [r \in Regions |-> << >>]
  /\ region_mark_stats = [r \in Regions |-> 0]
  /\ InitStack
  /\ barrier = [b \in 1 .. 2 |-> EmptyBarrier]
  /\ pc = [w \in Workers |-> "idle"]
  /\ site = [w \in Workers |-> "A"]
  /\ curr_region = [w \in Workers |-> NULL]
  /\ alive_bitmap = [w \in Workers |-> NULL]
  /\ task_aborted = [w \in Workers |-> FALSE]
  /\ has_timed_out = [w \in Workers |-> FALSE]
  /\ task_queue = [w \in Workers |-> << >>]
  /\ cache = [w \in Workers |-> EmptyCache]
  /\ old_finger = [w \in Workers |-> NULL]
  /\ fatal = FALSE
  /\ hist = InitHist
  /\ InitThreadsIdle

nonRootVars == <<markVars, stackVars, threadVars, listVars, remarkVars, clk, hist>>

num_root_regions == Len(root_regions)

\* An atomic add that adds twice.
Atomic_add_twice(add_value, dest) == dest + add_value + add_value

\* Atomic::add: the value of dest after the addition
Atomic_add(add_value, dest) == dest + add_value

\* A monitor anyone may enter at any time.
lock_free_always(lock) == TRUE

\* Mutex::lock can be taken
lock_free(lock) == lock.owner = NULL

\* G1SemeruCMRootRegions::add, called at a safepoint before the scan
Add(hr) ==
  /\ rpc[Coordinator] = "idle"
  /\ num_root_regions < MaxRootRegions
  /\ hr \notin SetOf(root_regions)
  /\ root_regions' = Append(root_regions, hr)
  /\ UNCHANGED <<claimed_root_regions, scan_in_progress, should_abort,
                 RootRegionScan_lock, rpc, rlocal, rhist, nonRootVars>>

\* G1SemeruCMRootRegions::prepare_for_scan
PrepareForScan ==
  /\ rpc[Coordinator] = "idle"
  /\ ~scan_in_progress
  /\ scan_in_progress' = (num_root_regions > 0)
  /\ claimed_root_regions' = 0
  /\ should_abort' = FALSE
  /\ rpc' = [rpc EXCEPT ![Coordinator] = "scan_root_regions"]
  /\ rhist' = [rhist EXCEPT !.prepared = TRUE]
  /\ UNCHANGED <<root_regions, RootRegionScan_lock, rlocal, nonRootVars>>

\* The workers run_task starts: MIN2(active workers, num_root_regions)
Started == {t \in Scanners : t <= num_root_regions}

\* G1SemeruConcurrentMark::scan_root_regions up to run_task
ScanRootRegions ==
  /\ rpc[Coordinator] = "scan_root_regions"
  /\ rpc' = IF scan_in_progress
            THEN [t \in RootThreads |->
                    IF t = Coordinator THEN "run_task"
                    ELSE IF t \in Started THEN "claim_next" ELSE rpc[t]]
            ELSE [rpc EXCEPT ![Coordinator] = "done"]
  /\ UNCHANGED <<root_regions, claimed_root_regions, scan_in_progress, should_abort,
                 RootRegionScan_lock, rlocal, rhist, nonRootVars>>

\* claim_next: if (_should_abort) return NULL;
ClaimAbort(t) ==
  /\ rpc[t] = "claim_next"
  /\ rlocal' = [rlocal EXCEPT ![t] =
       [claimed_index |-> NULL, returned |-> should_abort, hr |-> NULL,
        ret |-> "none",
        called |-> IF should_abort THEN "after_abort"
                   ELSE IF claimed_root_regions >= num_root_regions THEN "after_exhaustion"
                   ELSE "during_scan",
        cancelled |-> rhist.cancelled]]
  /\ rpc' = [rpc EXCEPT ![t] = IF should_abort THEN "done" ELSE "claim_exhausted"]
  /\ UNCHANGED <<root_regions, claimed_root_regions, scan_in_progress, should_abort,
                 RootRegionScan_lock, rhist, nonRootVars>>

\* claim_next: if (_claimed_root_regions >= _num_root_regions) return NULL;
ClaimExhausted(t) ==
  /\ rpc[t] = "claim_exhausted"
  /\ IF claimed_root_regions >= num_root_regions
     THEN /\ rlocal' = [rlocal EXCEPT ![t].returned = TRUE, ![t].hr = NULL]
          /\ rpc' = [rpc EXCEPT ![t] = "done"]
     ELSE /\ rpc' = [rpc EXCEPT ![t] = "claim_add"]
          /\ UNCHANGED rlocal
  /\ UNCHANGED <<root_regions, claimed_root_regions, scan_in_progress, should_abort,
                 RootRegionScan_lock, rhist, nonRootVars>>

\* claim_next: the atomic add and the return of the region at the claimed
\* index; a region returned goes to scan_root_region
ClaimAdd(t) ==
  /\ rpc[t] = "claim_add"
  /\ claimed_root_regions' = Atomic_add(1, claimed_root_regions)
  /\ LET claimed_index == claimed_root_regions' - 1
     IN IF claimed_index < num_root_regions
        THEN /\ rlocal' = [rlocal EXCEPT ![t].claimed_index = claimed_index,
                                         ![t].returned = TRUE,
                                         ![t].hr = root_regions[claimed_index + 1]]
             /\ rhist' = [rhist EXCEPT !.returned[root_regions[claimed_index + 1]] = @ + 1]
             /\ rpc' = [rpc EXCEPT ![t] = "scan_root_region"]
        ELSE /\ rlocal' = [rlocal EXCEPT ![t].claimed_index = claimed_index,
                                         ![t].returned = TRUE, ![t].hr = NULL]
             /\ rpc' = [rpc EXCEPT ![t] = "done"]
             /\ UNCHANGED rhist
  /\ UNCHANGED <<root_regions, scan_in_progress, should_abort,
                 RootRegionScan_lock, nonRootVars>>

\* G1SemeruCMRootRegionScanTask::work: scan_root_region(hr), then the next claim
ScanRootRegion(t) ==
  /\ rpc[t] = "scan_root_region"
  /\ rpc' = [rpc EXCEPT ![t] = "claim_next"]
  /\ UNCHANGED <<root_regions, claimed_root_regions, scan_in_progress, should_abort,
                 RootRegionScan_lock, rlocal, rhist, nonRootVars>>

\* scan_root_regions: run_task has returned; scan_finished calls notify_scan_done
ScanFinished ==
  /\ rpc[Coordinator] = "run_task"
  /\ \A t \in Started : rpc[t] = "done"
  /\ rpc' = [rpc EXCEPT ![Coordinator] = "notify_lock"]
  /\ UNCHANGED <<root_regions, claimed_root_regions, scan_in_progress, should_abort,
                 RootRegionScan_lock, rlocal, rhist, nonRootVars>>

\* G1SemeruCMRootRegions::cancel_scan: notify_scan_done and nothing else
CancelScan ==
  /\ rpc[Canceller] = "idle"
  /\ rhist.prepared
  /\ rpc' = [rpc EXCEPT ![Canceller] = "notify_lock"]
  /\ UNCHANGED <<root_regions, claimed_root_regions, scan_in_progress, should_abort,
                 RootRegionScan_lock, rlocal, rhist, nonRootVars>>

\* G1SemeruCMRootRegions::abort
Abort ==
  /\ rhist.prepared /\ ~rhist.aborted
  /\ should_abort' = TRUE
  /\ rhist' = [rhist EXCEPT !.aborted = TRUE]
  /\ UNCHANGED <<root_regions, claimed_root_regions, scan_in_progress,
                 RootRegionScan_lock, rpc, rlocal, nonRootVars>>

\* notify_scan_done: MutexLockerEx x(RootRegionScan_lock)
NotifyLock(t) ==
  /\ rpc[t] = "notify_lock"
  /\ lock_free(RootRegionScan_lock)
  /\ RootRegionScan_lock' = [RootRegionScan_lock EXCEPT !.owner = t]
  /\ rpc' = [rpc EXCEPT ![t] = "notify_set"]
  /\ UNCHANGED <<root_regions, claimed_root_regions, scan_in_progress, should_abort,
                 rlocal, rhist, nonRootVars>>

\* notify_scan_done: _scan_in_progress = false
NotifySet(t) ==
  /\ rpc[t] = "notify_set"
  /\ scan_in_progress' = FALSE
  /\ rpc' = [rpc EXCEPT ![t] = "notify_all"]
  /\ UNCHANGED <<root_regions, claimed_root_regions, should_abort,
                 RootRegionScan_lock, rlocal, rhist, nonRootVars>>

\* notify_scan_done: notify_all, and the unlock at the end of the scope
NotifyAll(t) ==
  /\ rpc[t] = "notify_all"
  /\ RootRegionScan_lock' = [owner |-> NULL, waiting |-> {}]
  /\ rpc' = [u \in RootThreads |->
               IF u = t THEN "done"
               ELSE IF u \in RootRegionScan_lock.waiting THEN "wait_lock"
               ELSE rpc[u]]
  /\ rhist' = [rhist EXCEPT !.notified = TRUE,
                            !.cancelled = @ \/ t = Canceller]
  /\ UNCHANGED <<root_regions, claimed_root_regions, scan_in_progress, should_abort,
                 rlocal, nonRootVars>>

\* wait_until_scan_finished: if (!scan_in_progress()) return false;
WaitCheck(t) ==
  /\ rpc[t] = "idle"
  /\ IF ~scan_in_progress
     THEN /\ rlocal' = [rlocal EXCEPT ![t].ret = "false", ![t].called = "idle"]
          /\ rpc' = [rpc EXCEPT ![t] = "returned"]
     ELSE /\ rlocal' = [rlocal EXCEPT ![t].called = "in_progress"]
          /\ rpc' = [rpc EXCEPT ![t] = "wait_lock"]
  /\ UNCHANGED <<root_regions, claimed_root_regions, scan_in_progress, should_abort,
                 RootRegionScan_lock, rhist, nonRootVars>>

\* wait_until_scan_finished: taking RootRegionScan_lock, at the MutexLockerEx
\* and on the way out of wait()
WaitLock(t) ==
  /\ rpc[t] = "wait_lock"
  /\ lock_free(RootRegionScan_lock)
  /\ RootRegionScan_lock' = [RootRegionScan_lock EXCEPT !.owner = t]
  /\ rpc' = [rpc EXCEPT ![t] = "wait_test"]
  /\ UNCHANGED <<root_regions, claimed_root_regions, scan_in_progress, should_abort,
                 rlocal, rhist, nonRootVars>>

\* wait_until_scan_finished: while (scan_in_progress()), and the return
WaitTest(t) ==
  /\ rpc[t] = "wait_test"
  /\ IF scan_in_progress
     THEN /\ rpc' = [rpc EXCEPT ![t] = "wait_wait"]
          /\ UNCHANGED <<RootRegionScan_lock, rlocal>>
     ELSE /\ RootRegionScan_lock' = [RootRegionScan_lock EXCEPT !.owner = NULL]
          /\ rlocal' = [rlocal EXCEPT ![t].ret = "true"]
          /\ rpc' = [rpc EXCEPT ![t] = "returned"]
  /\ UNCHANGED <<root_regions, claimed_root_regions, scan_in_progress, should_abort,
                 rhist, nonRootVars>>

\* wait_until_scan_finished: RootRegionScan_lock->wait() gives the lock up
\* and blocks
WaitWait(t) ==
  /\ rpc[t] = "wait_wait"
  /\ RootRegionScan_lock' = [owner |-> NULL,
                             waiting |-> RootRegionScan_lock.waiting \cup {t}]
  /\ rpc' = [rpc EXCEPT ![t] = "waiting"]
  /\ rlocal' = [rlocal EXCEPT ![t].called = "waited"]
  /\ UNCHANGED <<root_regions, claimed_root_regions, scan_in_progress, should_abort,
                 rhist, nonRootVars>>

NextR ==
  \/ \E hr \in RootCandidates : Add(hr)
  \/ PrepareForScan
  \/ ScanRootRegions
  \/ \E t \in Scanners :
       ClaimAbort(t) \/ ClaimExhausted(t) \/ ClaimAdd(t) \/ ScanRootRegion(t)
  \/ ScanFinished
  \/ CancelScan
  \/ Abort
  \/ \E t \in {Coordinator, Canceller} : NotifyLock(t) \/ NotifySet(t) \/ NotifyAll(t)
  \/ \E t \in Waiters : WaitCheck(t) \/ WaitLock(t) \/ WaitTest(t) \/ WaitWait(t)

SpecRoot == InitR /\ [][NextR]_vars

\* Every thread that can take a step takes one in the end.
FairSpecRoot ==
  /\ SpecRoot
  /\ \A t \in Scanners :
       WF_vars(ClaimAbort(t) \/ ClaimExhausted(t) \/ ClaimAdd(t) \/ ScanRootRegion(t))
  /\ WF_vars(ScanRootRegions \/ ScanFinished)
  /\ \A t \in {Coordinator, Canceller} :
       WF_vars(NotifyLock(t) \/ NotifySet(t) \/ NotifyAll(t))
  /\ \A t \in Waiters : WF_vars(WaitLock(t) \/ WaitTest(t) \/ WaitWait(t))

\* In SpecSpill a chunk is as large as a task queue.
SpillEntriesPerChunk == SpillMaxElems

(***************************************************************************)
(* SpecSpill: the undisturbed marking phase, with the sizes of Spec and     *)
(* with task queues as large as a chunk of the overflow stack, so that a   *)
(* chunk popped from the stack can meet a deque that is not empty.         *)
(***************************************************************************)
InitSp ==
  /\ \/ InitSizes
     \/ /\ max_elems = SpillMaxElems
        /\ entries_per_chunk = SpillEntriesPerChunk
  /\ InitMarking

SpecSpill == InitSp /\ [][QuietNext]_vars

(***************************************************************************)
(* SpecOverflow: the end of a marking step that was aborted by an overflow *)
(* of the global mark stack, in either phase and for a serial or a         *)
(* parallel caller.  A serial step is run by task 0 alone.                 *)
(***************************************************************************)
InitO ==
  /\ InitSizes
  /\ InitRootIdle
  /\ InitRemarkIdle
  /\ clk = NoClock
  /\ InitListsIdle
  /\ InitThreadsIdle
  /\ layout = [kind |-> <<"normal", "normal", "normal", "empty">>, chain |-> <<1>>,
               premarked |-> FALSE]
  /\ concurrent \in BOOLEAN
  /\ is_serial \in BOOLEAN
  /\ next_mark_bitmap = {}
  /\ restart_for_overflow = FALSE
  /\ finger = NULL
  /\ has_overflown = TRUE
  /\ cm_has_aborted = FALSE
  /\ should_yield = FALSE
  /\ alive = [r \in Regions |-> IF r = 1 THEN {1, 2, 3, 4, 5} ELSE {}]
  /\ target_obj_queue = [r \in Regions |-> IF r = 1 THEN << >> ELSE InitialTargetQueue(r)]
  /\ region_mark_stats = [r \in Regions |-> 0]
  /\ chunk_list = <<1>>
  /\ free_list = << >>
  /\ hwm = 1
  /\ chunk_capacity = MarkStackChunks
  /\ chunks_in_chunk_list = 1
  /\ chunk_data = [c \in ChunkIds |-> IF c = 1 THEN <<5, 3>> ELSE EmptyBuffer]
  /\ barrier = [b \in 1 .. 2 |-> EmptyBarrier]
  /\ pc = [w \in Workers |-> IF w = 0 \/ ~is_serial THEN "epilogue" ELSE "idle"]
  /\ site = [w \in Workers |-> IF w = 0 THEN "F" ELSE "A"]
  /\ curr_region = [w \in Workers |-> IF w = 0 THEN 1 ELSE NULL]
  /\ alive_bitmap = [w \in Workers |-> IF w = 0 THEN 1 ELSE NULL]
  /\ task_aborted = [w \in Workers |-> w = 0 \/ ~is_serial]
  /\ has_timed_out = [w \in Workers |-> FALSE]
  /\ task_queue \in {[w \in Workers |-> IF w = 0 THEN q ELSE << >>] :
                       q \in {<<1>>, <<3>>, <<1, 3>>}}
  /\ cache = [w \in Workers |->
                IF w = 0 THEN [EmptyCache EXCEPT ![1 % CacheSize] = [region |-> 1, live |-> 6]]
                ELSE EmptyCache]
  /\ old_finger = [w \in Workers |-> IF w = 0 THEN 1 ELSE NULL]
  /\ fatal = FALSE
  /\ hist = [InitHist EXCEPT !.pushed = [o \in Objects |-> IF o \in 1 .. 5 THEN 1 ELSE 0],
                             !.dropped = {2, 4},
                             !.claimed = [@ EXCEPT ![1] = 1],
                             !.overflowed = TRUE]

NextO ==
  \E w \in Workers : Epilogue(w) \/ BarrierEnter(w) \/ BarrierWait(w) \/ Between(w)

SpecOverflow == InitO /\ [][NextO]_vars

(***************************************************************************)
(* SpecClock: one regular_clock_call of one task, in any phase and with    *)
(* any of the flags it reads set.                                          *)
(***************************************************************************)
InitC ==
  /\ InitSizes
  /\ InitRootIdle
  /\ InitRemarkIdle
  /\ clk = NoClock
  /\ InitListsIdle
  /\ layout \in {l \in Layouts : Len(l.chain) = 1 /\ ~l.premarked}
  /\ restart_for_overflow = FALSE
  /\ is_serial = FALSE
  /\ next_mark_bitmap = {}
  /\ finger = HeapStart
  /\ has_overflown \in BOOLEAN
  /\ cm_has_aborted \in BOOLEAN
  /\ concurrent \in BOOLEAN
  /\ should_yield \in BOOLEAN
  /\ alive = [r \in Regions |-> {}]
  /\ target_obj_queue = [r \in Regions |-> << >>]
  /\ region_mark_stats = [r \in Regions |-> 0]
  /\ InitStack
  /\ barrier = [b \in 1 .. 2 |-> EmptyBarrier]
  /\ pc = [w \in Workers |-> "idle"]
  /\ site = [w \in Workers |-> "A"]
  /\ curr_region = [w \in Workers |-> NULL]
  /\ alive_bitmap = [w \in Workers |-> NULL]
  /\ task_aborted \in [Workers -> BOOLEAN]
  /\ has_timed_out = [w \in Workers |-> FALSE]
  /\ task_queue = [w \in Workers |-> << >>]
  /\ cache = [w \in Workers |-> EmptyCache]
  /\ old_finger = [w \in Workers |-> NULL]
  /\ fatal = FALSE
  /\ hist = InitHist
  /\ InitThreadsIdle

\* G1SemeruCMTask::regular_clock_call of worker w; what it finds of the
\* elapsed time and of the SATB queue set is an input.
RegularClockCall(w, elapsed_over_target, draining_satb_buffers, process_completed_buffers) ==
  /\ ~clk.called
  /\ LET in == [has_aborted |-> task_aborted[w], has_overflown |-> has_overflown,
                concurrent |-> concurrent, cm_has_aborted |-> cm_has_aborted,
                should_yield |-> should_yield,
                elapsed_over_target |-> elapsed_over_target,
                draining_satb_buffers |-> draining_satb_buffers,
                process_completed_buffers |-> process_completed_buffers]
         out == regular_clock_call_at(in)
     IN /\ has_timed_out' = [has_timed_out EXCEPT ![w] = @ \/ out.has_timed_out]
        /\ clk' = [called |-> TRUE, w |-> w, ret |-> out.ret, in |-> in]
  /\ UNCHANGED <<layout, max_elems, entries_per_chunk, is_serial, next_mark_bitmap, restart_for_overflow, finger, has_overflown, cm_has_aborted,
                 concurrent, should_yield, alive, target_obj_queue, region_mark_stats,
                 barrier, pc, site, curr_region, alive_bitmap, task_aborted,
                 task_queue, cache, old_finger, fatal, stackVars, threadVars,
                 listVars, rootVars, remarkVars, hist>>

NextC ==
  \E w \in Workers : \E e, d, s \in BOOLEAN : RegularClockCall(w, e, d, s)

SpecClock == InitC /\ [][NextC]_vars

(***************************************************************************)
(* SpecRemark: G1SemeruConcurrentMark::remark on a cycle that has not been *)
(* aborted.  The VM thread runs finalize_marking; every worker runs        *)
(* G1SemeruCMRemarkTask::work.  The threads visited are the Java threads   *)
(* and the VM thread; what their SATB queues hold is an input.  No thread  *)
(* has nmethods.                                                           *)
(***************************************************************************)
\* What a SATB queue can hold.
SatbEntries == {2, 9, 10}

RECURSIVE SeqsUpTo(_, _)
SeqsUpTo(S, n) ==
  IF n = 0 THEN {<< >>}
  ELSE LET shorter == SeqsUpTo(S, n - 1)
       IN shorter \cup {Append(q, x) : q \in shorter, x \in S}

\* The marker as a completed marking phase over the chain <<1, 3>> leaves
\* it: worker 0 still holds the humongous region 3, worker 1 holds none.
InitRm ==
  /\ InitSizes
  /\ InitRootIdle
  /\ InitListsIdle
  /\ clk = NoClock
  /\ satb_queue \in [SatbThreads -> SeqsUpTo(SatbEntries, MaxSatbEntries)]
  /\ claimed_threads = {}
  /\ threads_do_next = [w \in Workers |-> 1]
  /\ vm_pc = "idle"
  /\ layout = [chain |-> <<1, 3>>, kind |-> <<"normal", "normal", "hs", "hc">>,
               premarked |-> TRUE]
  /\ restart_for_overflow = FALSE
  /\ is_serial = FALSE
  /\ next_mark_bitmap = {}
  /\ finger = NULL
  /\ has_overflown = FALSE
  /\ cm_has_aborted = FALSE
  /\ concurrent = TRUE
  /\ should_yield = FALSE
  /\ alive = [r \in Regions |-> IF r = 3 THEN {9} ELSE {}]
  /\ target_obj_queue = [r \in Regions |-> InitialTargetQueue(r)]
  /\ region_mark_stats = [r \in Regions |-> IF r = 3 THEN ObjSize(9) ELSE 0]
  /\ InitStack
  /\ barrier = [b \in 1 .. 2 |-> EmptyBarrier]
  /\ pc = [w \in Workers |-> "done"]
  /\ site = [w \in Workers |-> IF w = 0 THEN "H" ELSE "F"]
  /\ curr_region = [w \in Workers |-> IF w = 0 THEN 3 ELSE NULL]
  /\ alive_bitmap = [w \in Workers |-> IF w = 0 THEN 3 ELSE NULL]
  /\ task_aborted = [w \in Workers |-> FALSE]
  /\ has_timed_out = [w \in Workers |-> FALSE]
  /\ task_queue = [w \in Workers |-> << >>]
  /\ cache = [w \in Workers |-> EmptyCache]
  /\ old_finger = [w \in Workers |-> IF w = 0 THEN 3 ELSE NULL]
  /\ fatal = FALSE
  /\ hist = [InitHist EXCEPT !.scanned = [@ EXCEPT ![9] = 1],
                             !.claimed = [@ EXCEPT ![1] = 1, ![3] = 1],
                             !.lost = {1}]
  /\ InitThreadsIdle

\* finalize_marking up to run_task(&remarkTask); remark() returns before it
\* when the cycle has been aborted
FinalizeMarking ==
  /\ ~fatal /\ vm_pc = "idle"
  /\ \A w \in Workers : pc[w] = "done"
  /\ ~cm_has_aborted
  /\ concurrent' = FALSE                 \* set_concurrency_and_phase(active_workers, false)
  /\ pc' = [w \in Workers |-> "threads_do"]
  /\ threads_do_next' = [w \in Workers |-> 1]
  /\ claimed_threads' = {}
  /\ vm_pc' = "run_task"
  /\ UNCHANGED <<layout, max_elems, entries_per_chunk, is_serial, next_mark_bitmap, restart_for_overflow, finger, has_overflown, cm_has_aborted,
                 should_yield, alive, target_obj_queue, region_mark_stats,
                 barrier, site, curr_region, alive_bitmap, task_aborted,
                 has_timed_out, task_queue, cache, old_finger, fatal, stackVars,
                 threadVars, listVars, rootVars, satb_queue, clk, hist>>

\* G1CMSATBBufferClosure::do_entry.  With no current region the read of
\* _curr_region's NTAMS in mark_in_alive_bitmap is a null dereference.
do_entry(m, w, entry) ==
  IF curr_region[w] = NULL THEN [m EXCEPT !.fatal = TRUE, !.ret = FALSE]
  ELSE make_reference_alive(m, w, entry)

\* G1CMSATBBufferClosure::do_buffer
RECURSIVE do_buffer(_, _, _, _)
do_buffer(m, w, buffer, i) ==
  IF i > Len(buffer) \/ m.fatal THEN m
  ELSE do_buffer(do_entry(m, w, buffer[i]), w, buffer, i + 1)

\* G1SemeruRemarkThreadsClosure::do_thread of worker w on the next thread of
\* its walk: the worker that claims the thread applies the SATB closure to
\* the thread's queue and empties it.
DoThread(w) ==
  /\ ~fatal /\ pc[w] = "threads_do"
  /\ threads_do_next[w] <= NumSatbThreads
  /\ LET thread == threads_do_next[w]
     IN IF thread \in claimed_threads
        THEN UNCHANGED <<claimed_threads, satb_queue, scanVars>>
        ELSE /\ claimed_threads' = claimed_threads \cup {thread}
             /\ Commit(do_buffer(MarkRec(w), w, satb_queue[thread], 1), w, hist)
             /\ satb_queue' = [satb_queue EXCEPT ![thread] = << >>]
  /\ threads_do_next' = [threads_do_next EXCEPT ![w] = @ + 1]
  /\ UNCHANGED <<layout, max_elems, entries_per_chunk, is_serial, next_mark_bitmap, restart_for_overflow, finger, cm_has_aborted, concurrent,
                 should_yield, target_obj_queue, chunk_capacity, barrier, pc, site,
                 curr_region, alive_bitmap, has_timed_out, old_finger, threadVars,
                 listVars, rootVars, vm_pc, clk>>

\* The end of Threads::threads_do in G1SemeruCMRemarkTask::work
ThreadsDone(w) ==
  /\ ~fatal /\ pc[w] = "threads_do"
  /\ threads_do_next[w] > NumSatbThreads
  /\ Goto(w, "do_marking_step")
  /\ UNCHANGED <<layout, max_elems, entries_per_chunk, is_serial, next_mark_bitmap, restart_for_overflow, finger, cm_has_aborted, concurrent,
                 should_yield, target_obj_queue, chunk_capacity, barrier, site,
                 curr_region, alive_bitmap, has_timed_out, old_finger, threadVars,
                 listVars, rootVars, remarkVars, clk, scanVars>>

\* G1SemeruCMTask::do_marking_step: guarantee(false) is its first statement
DoMarkingStep(w) ==
  /\ ~fatal /\ pc[w] = "do_marking_step"
  /\ fatal' = TRUE
  /\ Goto(w, "guarantee")
  /\ UNCHANGED <<layout, max_elems, entries_per_chunk, is_serial, next_mark_bitmap, restart_for_overflow, finger, has_overflown, cm_has_aborted,
                 concurrent, should_yield, alive, target_obj_queue, region_mark_stats,
                 barrier, site, curr_region, alive_bitmap, task_aborted,
                 has_timed_out, task_queue, cache, old_finger, stackVars,
                 threadVars, listVars, rootVars, remarkVars, clk, hist>>

NextRm ==
  \/ FinalizeMarking
  \/ \E w \in Workers : DoThread(w) \/ ThreadsDone(w) \/ DoMarkingStep(w)

SpecRemark == InitRm /\ [][NextRm]_vars

(***************************************************************************)
(* Properties.                                                             *)
(***************************************************************************)
\* Every worker has left work().
PhaseComplete == \A w \in Workers : pc[w] = "done"

\* Nothing disturbed the run: no overflow, no abort of the cycle, no yield
\* request, no time-out or other stop by the clock.
Undisturbed == ~hist.overflowed /\ ~cm_has_aborted /\ ~hist.faulted

\* The referents in region r's target-object queue that lie in r below NTAMS.
Roots(r) ==
  {o \in Objects : /\ o \in SetOf(InitialTargetQueue(r))
                   /\ ObjRegion(o) = r
                   /\ ~obj_allocated_since_next_marking(r, o)}

\* The closure of S under references that stay in r below NTAMS.
RECURSIVE ReachIn(_, _)
ReachIn(r, S) ==
  LET N == S \cup {o \in Objects : /\ \E p \in S : o \in SetOf(Fields(p))
                                  /\ ObjRegion(o) = r
                                  /\ ~obj_allocated_since_next_marking(r, o)}
  IN IF N = S THEN S ELSE ReachIn(r, N)

\* C1: when the marking phase completes without overflow and without abort,
\* every object below NTAMS that is reachable through in-region references
\* from the target-object queue of a region of the chain is marked in that
\* region's alive bitmap.
C1_MarkingComplete ==
  (PhaseComplete /\ Undisturbed /\ ~fatal) =>
    \A i \in 1 .. Len(layout.chain) :
      ReachIn(layout.chain[i], Roots(layout.chain[i])) \subseteq alive[layout.chain[i]]

\* C2: a worker is inside claim_region only while it holds no region, and no
\* region handed to a worker is replaced by a newly claimed one.
C2_ClaimOnlyWithoutRegion ==
  /\ \A w \in Workers :
       pc[w] \in {"claim_while", "claim_cas"} => curr_region[w] = NULL
  /\ hist.lost = {}

\* C3: unless an overflow, an abort, a yield request or a time-out occurs,
\* every worker's marking step returns un-aborted and the worker leaves
\* work(), holding no region and with an empty deque.
C3_StepTerminates ==
  <>(\/ hist.overflowed \/ cm_has_aborted \/ hist.faulted \/ fatal
     \/ /\ PhaseComplete
        /\ \A w \in Workers :
             ~task_aborted[w] /\ curr_region[w] = NULL /\ task_queue[w] = << >>)

\* C4: between resets of the finger every region is returned by claim_region
\* at most once, no two workers hold the same region, and a worker gets a
\* region only in the step in which its own compare-and-swap moved the
\* finger off that region.
C4_ClaimExclusive ==
  /\ [](/\ \A r \in Regions : hist.claimed[r] <= 1
        /\ \A w1, w2 \in Workers :
             (w1 # w2 /\ curr_region[w1] # NULL) => curr_region[w1] # curr_region[w2])
  /\ [][\A w \in Workers :
         (curr_region'[w] # NULL /\ curr_region'[w] # curr_region[w]) =>
           /\ old_finger[w] = curr_region'[w]
           /\ finger = old_finger[w]
           /\ finger' = mem_server_cset_next(old_finger[w])]_vars

\* C4 witness: two workers have interleaved their claims and hold two regions.
C4_Witness ==
  /\ curr_region[0] # NULL /\ curr_region[1] # NULL
  /\ hist.claimed[curr_region[0]] = 1 /\ hist.claimed[curr_region[1]] = 1

\* C5: a compare-and-swap of claim_region that fails because another worker
\* moved the finger is not a fatal error.
C5_LostRaceNotFatal == ~hist.lost_cas

\* C6: deal_with_reference on a referent outside the worker's current region
\* returns false and changes no bitmap, no live-word count and no deque;
\* every mark lies in the bitmap of the object's own region, and a bitmap
\* changes only while a worker holds its region.
C6_CrossRegionDropped ==
  /\ [](/\ \A w \in Workers : \A obj \in Objects :
             (curr_region[w] # NULL /\ ObjRegion(obj) # curr_region[w]) =>
               deal_with_reference(MarkRec(w), w, obj) = MarkRec(w)
        /\ \A r \in Regions : \A o \in alive[r] : ObjRegion(o) = r)
  /\ [][\A r \in Regions :
         alive'[r] # alive[r] =>
           \E w \in Workers : curr_region[w] = r /\ alive_bitmap[w] = r]_vars

\* C6 witness: object 1 of region 1, which refers to object 7 of region 2,
\* has been scanned by the holder of region 1 and region 2 has no mark.
C6_Witness ==
  /\ hist.scanned[1] >= 1
  /\ \E w \in Workers : curr_region[w] = 1
  /\ alive[2] = {}

\* Sum of the sizes of the objects in S.
RECURSIVE SumSizes(_)
SumSizes(S) ==
  IF S = {} THEN 0
  ELSE LET o == CHOOSE x \in S : TRUE IN ObjSize(o) + SumSizes(S \ {o})

\* Live words the caches of workers 0 .. w hold for region r.
RECURSIVE SumCached(_, _)
SumCached(r, w) ==
  IF w < 0 THEN 0 ELSE CachedLive(cache[w], r) + SumCached(r, w - 1)

C8_PushedOnce ==
  \A o \in Objects :
    /\ hist.pushed[o] <= 1
    /\ IsTypeArray(o) => hist.pushed[o] = 0

\* C8 witness: objects 1 and 2, which refer to each other, have both been
\* scanned, and the primitive array 6 is marked.
C8_Witness ==
  /\ hist.scanned[1] >= 1 /\ hist.scanned[2] >= 1
  /\ hist.pushed[1] = 1 /\ hist.pushed[2] = 1
  /\ 6 \in alive[1]

\* No par_push_chunk or par_pop_chunk call is running.
Quiescent == \A t \in Threads : spc[t] = "ready"

\* C9: no batch is returned by two par_pop_chunk calls, every batch returned
\* was pushed, and when no call is running and the chunk list is empty as
\* many batches have been popped as pushed.
C9_Conservation ==
  /\ ~hist.repopped
  /\ hist.pops \subseteq hist.pushes
  /\ chunks_in_chunk_list = Len(chunk_list)
  /\ (Quiescent /\ chunk_list = << >>) =>
       Cardinality(hist.pops) = Cardinality(hist.pushes)

\* C9 witness: two batches were pushed and both popped, no call is running.
C9_Witness ==
  /\ Quiescent /\ chunk_list = << >>
  /\ Cardinality(hist.pops) = 2

\* C10: the batch a par_pop_chunk has copied out is, entry for entry, a batch
\* handed to par_push_chunk, also when the chunk came from the free list;
\* no pusher copies into a chunk a popper is copying out of.
C10_RoundTrip ==
  /\ \A t \in Threads :
       spc[t] = "pop_free" => sbuf[t] \in {Batch(k) : k \in 1 .. StackOps} \cap hist.pushes
  /\ \A t1, t2 \in Threads :
       (spc[t1] = "push_copy" /\ spc[t2] \in {"pop_copy", "pop_free"}) =>
         schunk[t1] # schunk[t2]
  /\ \A i \in 1 .. Len(chunk_list) : chunk_data[chunk_list[i]] \in hist.pushes

\* C10 witness: the first batch was popped, the batch of the third operation
\* went into the chunk the first batch had used, and has been copied out.
C10_Witness ==
  /\ hwm = 1
  /\ Batch(1) \in hist.pops
  /\ \E t \in Threads : spc[t] = "pop_free" /\ sbuf[t] = Batch(3)

\* C11: par_push_chunk returns false only when the free list is empty and
\* _hwm has reached _chunk_capacity; the failed call leaves the chunk list and
\* its counter as they were, and move_entries_to_global_stack, whose push
\* failed, leaves has_overflown set and its task aborted.  Stated of the call
\* every worker could make in every reachable state, and of every step in
\* which has_overflown is raised.
C11_PushFailure ==
  /\ [](\A w \in Workers :
          LET m == MarkRec(w)
              m1 == par_push_chunk(m, Batch(1))
              m2 == move_entries_to_global_stack(m)
          IN /\ m1.ret = FALSE <=> (m.fl = << >> /\ m.hwm >= chunk_capacity)
             /\ m1.ret = FALSE => m1.cl = m.cl /\ m1.ncl = m.ncl
             /\ (m1.ret = FALSE /\ m.tq # << >>) =>
                   m2.ov /\ m2.ab /\ m2.cl = m.cl /\ m2.ncl = m.ncl)
  /\ [][(~has_overflown /\ has_overflown') =>
          /\ free_list' = << >> /\ hwm' >= chunk_capacity
          /\ \E w \in Workers : task_aborted'[w] /\ task_queue'[w] # task_queue[w]]_vars

\* A push has just failed on a stack whose only chunk is on the chunk list.
C11_Witness ==
  /\ has_overflown /\ hist.overflowed /\ ~hist.restarted
  /\ chunk_list # << >> /\ free_list = << >> /\ hwm >= chunk_capacity
  /\ \E w \in Workers : task_aborted[w]

\* C12: once has_overflown is set while the gang runs the concurrent marking
\* task, every worker enters the first overflow barrier and then the second:
\* the flag is cleared between the barriers and the second barrier fills, no
\* worker being left before it.  A run the VM has stopped with a fatal error
\* is not held against the protocol.
C12_Rendezvous ==
  has_overflown ~>
    \/ fatal
    \/ /\ ~has_overflown
       /\ barrier[2].n_completed = NumWorkers
       /\ \A w \in Workers :
            pc[w] \notin {"barrier1_enter", "barrier1_wait", "between", "barrier2_enter"}

\* C13: after an overflow restart in the concurrent phase, when every worker
\* is through the reset and the second barrier holds them all, the global
\* mark stack is empty, every per-worker queue is empty, has_overflown is
\* false and no worker holds a region; the step by which a worker leaves the
\* second barrier changes none of this.
C13_CleanAfterRestart ==
  /\ []((concurrent /\ \A w \in Workers : pc[w] = "barrier2_wait") =>
          /\ chunk_list = << >> /\ chunks_in_chunk_list = 0
          /\ \A w \in Workers : task_queue[w] = << >> /\ curr_region[w] = NULL
          /\ ~has_overflown)
  /\ [][\A w \in Workers :
          (pc[w] = "barrier2_wait" /\ pc'[w] # pc[w]) =>
            UNCHANGED <<chunk_list, chunks_in_chunk_list, task_queue,
                        curr_region, has_overflown>>]_vars

\* The gang is in the second barrier, after an overflow in which the entries
\* of the failed push were lost and the reset has run.
C13_Witness ==
  /\ \A w \in Workers : pc[w] = "barrier2_wait"
  /\ hist.overflowed /\ hist.restarted /\ ~cm_has_aborted
  /\ hist.dropped # {}

\* C14: after the overflow reset the finger is at the head of the
\* collection-set chain, so that the restarted marking claims the regions of
\* the chain again from its first region.  Stated at the second barrier,
\* before any worker claims again.
C14_FingerAtChainHead ==
  (hist.restarted /\ ~cm_has_aborted /\ \A w \in Workers : pc[w] = "barrier2_wait")
    => finger = CSetHead

\* C15: when the global mark stack overflows during concurrent marking and
\* the workers complete the two-barrier protocol, restart_for_overflow is
\* true once the second barrier is released.
C15_RestartForOverflow ==
  (/\ concurrent /\ hist.restarted /\ ~cm_has_aborted
   /\ barrier[2].n_completed = NumWorkers
   /\ \A w \in Workers : pc[w] = "barrier2_wait")
    => restart_for_overflow

\* The finger moves from a region of the chain to the region after it, or to
\* NULL from the last one.
FingerAdvances ==
  \E i \in 1 .. Len(layout.chain) :
    /\ finger = layout.chain[i]
    /\ finger' = IF i = Len(layout.chain) THEN NULL ELSE layout.chain[i + 1]

\* C16, as the claim states it: within a marking cycle every new value of
\* the finger is the bottom of the cset_next region of the previous one, or
\* NULL at the end of the chain.
C16_FingerMonotone == [][finger' # finger => FingerAdvances]_vars

\* C16, amended: the finger only advances along the chain, except that
\* reset_marking_for_restart (the overflow restart, or the abort of the cycle
\* by a full collection) puts it back at _heap.start() together with emptying
\* the mark stack and the per-worker queues.
C16_FingerMonotoneBetweenResets ==
  [][finger' # finger =>
       \/ FingerAdvances
       \/ /\ finger' = HeapStart
          /\ chunk_list' = << >> /\ hwm' = 0 /\ ~has_overflown'
          /\ \A w \in Workers : task_queue'[w] = << >>
          /\ hist'.restarted \/ cm_has_aborted']_vars

\* After an overflow restart the finger has advanced into the chain again.
C16_Witness ==
  /\ hist.restarted /\ ~cm_has_aborted
  /\ finger # HeapStart /\ finger # NULL

\* C17: claim_region called when the finger is NULL returns NULL (the worker
\* is given no region) and leaves the finger and the rest of the global
\* marking state as they were.
C17_ExhaustedClaimNoEffect ==
  [][\A w \in Workers :
       (pc[w] = "claim_while" /\ finger = NULL /\ pc'[w] # pc[w]) =>
         /\ pc'[w] = "claim_loop"
         /\ curr_region'[w] = curr_region[w] /\ alive_bitmap'[w] = alive_bitmap[w]
         /\ UNCHANGED <<finger, has_overflown, cm_has_aborted, alive,
                        target_obj_queue, region_mark_stats, stackVars,
                        task_queue, restart_for_overflow, fatal>>]_vars

\* A worker is inside claim_region, past its checkpoint of a finger that was
\* not NULL, and the finger is NULL now: another worker has claimed the last
\* region of the chain.
C17_Witness ==
  \E w \in Workers :
    /\ pc[w] = "claim_while" /\ finger = NULL /\ old_finger[w] # NULL
    /\ \E v \in Workers \ {w} : curr_region[v] = old_finger[w]

Ascending(w) ==
  \A i \in 1 .. (Len(w) - 1) : hrm_index(w[i]) < hrm_index(w[i + 1])

Reverse(w) == [i \in 1 .. Len(w) |-> w[Len(w) + 1 - i]]

\* A list record and the links agree: strictly ascending from _head, _length
\* regions, _tail the last of them, _prev the mirror image of _next.
WellFormed(next, prev, list) ==
  LET w == Walk(next, list.head)
  IN /\ Ascending(w)
     /\ Len(w) = list.length
     /\ IF w = << >> THEN list.tail = NULL
        ELSE list.tail = w[Len(w)] /\ WalkBack(prev, list.tail) = Reverse(w)

\* C18: L.add_ordered(M), for L and M strictly ascending over disjoint
\* regions, leaves in L exactly the regions of both, strictly ascending,
\* |L| + |M| of them, head the least and tail the greatest index, prev the
\* mirror of next, and leaves M empty with no head and no tail.
C18_OrderedMerge ==
  [][lop'.op = "add_ordered" =>
       LET L == lop'.self
           M == lop'.a
           wl == Walk(hr_next, free_lists[L].head)
           wm == Walk(hr_next, free_lists[M].head)
           w == Walk(hr_next', free_lists'[L].head)
       IN (/\ WellFormed(hr_next, hr_prev, free_lists[L])
           /\ WellFormed(hr_next, hr_prev, free_lists[M])
           /\ SetOf(wl) \cap SetOf(wm) = {}) =>
            /\ SetOf(w) = SetOf(wl) \cup SetOf(wm)
            /\ Len(w) = Len(wl) + Len(wm)
            /\ free_lists'[L].length = free_lists[L].length + free_lists[M].length
            /\ WellFormed(hr_next', hr_prev', free_lists'[L])
            /\ w # << >> => hr_prev'[free_lists'[L].head] = NULL
            /\ free_lists'[M].length = 0
            /\ free_lists'[M].head = NULL /\ free_lists'[M].tail = NULL]_vars

\* A merge of two interleaved lists of two regions each has been made, the
\* least index coming from the list merged in.
C18_Witness ==
  /\ lop.op = "add_ordered" /\ lop.n = 1
  /\ LET w == Walk(hr_next, free_lists[lop.self].head)
     IN /\ Len(w) = 4
        /\ lop.ret = <<w[1], w[3]>>

C20_RegionsInRange ==
  [][lop'.op = "num_of_regions_in_range" =>
       LET L == lop'.self
           w == Walk(hr_next, free_lists[L].head)
       IN WellFormed(hr_next, hr_prev, free_lists[L]) =>
            /\ lop'.ret = Cardinality({hr \in SetOf(w) :
                   lop'.a <= hrm_index(hr) /\ hrm_index(hr) <= lop'.b})
            /\ UNCHANGED <<hr_next, hr_prev, hr_containing_set, free_lists>>]_vars

\* The regions with index 1 and 2 of a list of four have been counted.
C20_Witness ==
  /\ lop.op = "num_of_regions_in_range" /\ lop.n = 1
  /\ lop.a = 1 /\ lop.b = 2 /\ lop.ret = 2
  /\ free_lists[lop.self].length = 4

\* C21: in every state reached by add_ordered, remove_starting_at and
\* remove_all calls, each list is well formed (head without prev, tail
\* without next, length the number of regions reached from head, indices
\* strictly ascending, prev the mirror of next), the containing set of each
\* of its regions is the list itself, a region on no list has no containing
\* set and no links, and no region is on two lists.
C21_WellFormedPreserved ==
  /\ \A l \in ListIds :
       LET w == Walk(hr_next, free_lists[l].head)
       IN /\ WellFormed(hr_next, hr_prev, free_lists[l])
          /\ free_lists[l].head # NULL => hr_prev[free_lists[l].head] = NULL
          /\ free_lists[l].tail # NULL => hr_next[free_lists[l].tail] = NULL
          /\ (free_lists[l].head = NULL) = (free_lists[l].length = 0)
          /\ \A hr \in SetOf(w) : hr_containing_set[hr] = l
  /\ \A hr \in HeapRegions :
       (\A l \in ListIds : hr \notin SetOf(Walk(hr_next, free_lists[l].head))) =>
         /\ hr_containing_set[hr] = NULL
         /\ hr_next[hr] = NULL /\ hr_prev[hr] = NULL
  /\ SetOf(Walk(hr_next, free_lists[1].head))
       \cap SetOf(Walk(hr_next, free_lists[2].head)) = {}

\* Two regions have been merged into a list of two by add_ordered, behind
\* its first and behind its last region; all four now name that list.
C21_Witness ==
  /\ lop.op = "add_ordered" /\ lop.n = 1
  /\ LET w == Walk(hr_next, free_lists[lop.self].head)
     IN /\ Len(w) = 4
        /\ lop.ret = <<w[2], w[4]>>
        /\ \A hr \in HeapRegions : hr_containing_set[hr] = lop.self

\* C22: no root region is returned by claim_next twice; when every worker
\* of the scan has run claim_next until it returned NULL and abort() was
\* not called, each registered root region has been returned once; and a
\* claim_next that began after abort() or after the last region was
\* claimed returns NULL.
C22_RootClaimedOnce ==
  /\ \A hr \in RootCandidates : rhist.returned[hr] <= 1
  /\ \A hr \in RootCandidates \ SetOf(root_regions) : rhist.returned[hr] = 0
  /\ (Started # {} /\ ~rhist.aborted /\ \A t \in Started : rpc[t] = "done") =>
       \A hr \in SetOf(root_regions) : rhist.returned[hr] = 1
  /\ \A t \in Scanners :
       (rlocal[t].returned /\ rlocal[t].called \in {"after_abort", "after_exhaustion"}) =>
         rlocal[t].hr = NULL

\* Both workers have finished a scan of two root regions that was not
\* aborted, one region each, and their last calls began after exhaustion.
C22_Witness ==
  /\ num_root_regions = 2 /\ ~rhist.aborted
  /\ \A t \in Scanners :
       /\ rpc[t] = "done" /\ rlocal[t].called = "after_exhaustion"
       /\ rlocal[t].returned /\ rlocal[t].hr = NULL
  /\ \A hr \in RootCandidates : rhist.returned[hr] = 1

\* C23: a claim_next call that began after cancel_scan had returned returns
\* NULL, whether or not root regions are left unclaimed, and after
\* cancel_scan no thread is left blocked in wait_until_scan_finished.
C23_CancelStopsClaims ==
  /\ \A t \in Scanners :
       (rlocal[t].returned /\ rlocal[t].cancelled) => rlocal[t].hr = NULL
  /\ rhist.cancelled => \A t \in Waiters : rpc[t] # "waiting"

\* C24: wait_until_scan_finished returns false exactly when its first read
\* finds no scan in progress, and then without taking the lock; otherwise it
\* returns true, and not before notify_scan_done has cleared
\* scan_in_progress; and once notify_scan_done has run, every thread inside
\* wait_until_scan_finished returns.
C24_WaitUntilScanFinished ==
  /\ [](\A t \in Waiters :
          /\ rlocal[t].called = "idle" => (rpc[t] = "returned" /\ rlocal[t].ret = "false")
          /\ rlocal[t].ret = "false" => rlocal[t].called = "idle"
          /\ rlocal[t].ret = "true" =>
               /\ rlocal[t].called \in {"in_progress", "waited"}
               /\ rhist.notified /\ ~scan_in_progress
          /\ rpc[t] = "returned" => rlocal[t].ret # "none")
  /\ \A t \in Waiters :
       (rhist.notified /\ rpc[t] \in {"wait_lock", "wait_test", "wait_wait", "waiting"})
         ~> (rpc[t] = "returned")

\* One thread has blocked in wait() and returned true after the notify, and
\* another has found no scan in progress and returned false.
C24_Witness ==
  /\ \E t \in Waiters :
       rpc[t] = "returned" /\ rlocal[t].ret = "true" /\ rlocal[t].called = "waited"
  /\ \E t \in Waiters :
       rpc[t] = "returned" /\ rlocal[t].ret = "false"
  /\ rhist.notified

\* C25: the object of a marked humongous-start region is scanned once, and
\* a worker that has left the marking step without having aborted holds no
\* humongous region: it released the region after the scan (or, for a
\* humongous-continues or unmarked humongous-start region, without a scan).
C25_HumongousReleased ==
  \A w \in Workers :
    (pc[w] \in {"yield_check", "done"} /\ ~task_aborted[w] /\ curr_region[w] # NULL) =>
      ~is_humongous(curr_region[w])

\* The objects at or above the NTAMS of their own region.
AboveNtams == {o \in Objects : obj_allocated_since_next_marking(ObjRegion(o), o)}

\* C26: an object at or above the NTAMS of its region is in no alive bitmap,
\* has never been pushed and sits in no task queue, and a region whose NTAMS
\* is its bottom has no live words counted; for a worker holding the
\* object's region, mark_in_alive_bitmap returns false and changes nothing,
\* and make_reference_alive returns false and pushes nothing.
C26_NothingAboveNtams ==
  /\ \A o \in AboveNtams :
       /\ \A r \in Regions : o \notin alive[r]
       /\ hist.pushed[o] = 0
       /\ \A w \in Workers : o \notin SetOf(task_queue[w])
  /\ \A r \in Regions :
       ~NtamsAboveBottom(r) =>
         /\ region_mark_stats[r] = 0
         /\ \A w \in Workers : CachedLive(cache[w], r) = 0
  /\ \A w \in Workers : \A o \in AboveNtams :
       curr_region[w] = ObjRegion(o) =>
         /\ mark_in_alive_bitmap(MarkRec(w), w, o) = MarkRec(w)
         /\ make_reference_alive(MarkRec(w), w, o) = MarkRec(w)

\* C27: neither the marker's nor a task's has_aborted flag is ever cleared,
\* and a worker whose flag is set does not enter the marking step again.
C27_AbortMonotone ==
  [][/\ cm_has_aborted => cm_has_aborted'
     /\ \A w \in Workers :
          /\ task_aborted[w] => task_aborted'[w]
          /\ (task_aborted[w] /\ pc[w] # "step") => pc'[w] # "step"]_vars

\* C27 as the code has it: the marker's has_aborted flag is never cleared
\* and no worker enters the marking step once it is set; a task's flag is
\* cleared only at the head of a marking step, and a worker past its first
\* step enters the step again exactly when its task's flag is set and the
\* marker's is not.
C27_GlobalAbortMonotone ==
  [][/\ cm_has_aborted => cm_has_aborted'
     /\ \A w \in Workers :
          /\ (task_aborted[w] /\ ~task_aborted'[w]) =>
               (pc[w] = "step" /\ pc'[w] = "loop_top")
          /\ (pc[w] # "step" /\ pc'[w] = "step") => ~cm_has_aborted
          /\ (pc[w] \notin {"step", "idle"} /\ pc'[w] = "step") => task_aborted[w]
          /\ (pc[w] \in {"yield_check", "yielding"} /\ pc'[w] = "done") =>
               (cm_has_aborted \/ ~task_aborted[w])]_vars

\* A worker whose step was aborted by the time target is about to enter the
\* marking step again.
C27_Witness ==
  \E w \in Workers :
    pc[w] = "step" /\ task_aborted[w] /\ has_timed_out[w] /\ ~cm_has_aborted

\* C29: in every reachable state, for every worker and every entry, push
\* leaves the entry on top of the local queue; when the queue is full,
\* move_entries_to_global_stack takes at least one entry off it, whether
\* the global stack accepts the batch or overflows, and the second push
\* puts the entry on what is left.
C29_PushNeverFails ==
  \A w \in Workers : \A e \in Objects :
    LET m == MarkRec(w)
        m1 == move_entries_to_global_stack(m)
        r == push(m, e)
    IN /\ r.tq # << >> /\ r.tq[Len(r.tq)] = e
       /\ r.dropped = IF Len(m.tq) < QueueMaxElems THEN m.dropped ELSE m1.dropped
       /\ Len(m.tq) = QueueMaxElems =>
            /\ Len(m1.tq) < Len(m.tq)
            /\ r.tq = Append(m1.tq, e)
            /\ (m1.ov /\ ~m.ov) => m1.ab

\* A worker's full local queue was moved to a global stack that refused it,
\* and the entry pushed after that is on the queue.
C29_Witness ==
  \E w \in Workers :
    /\ has_overflown /\ task_aborted[w]
    /\ hist.dropped # {}
    /\ task_queue[w] # << >>
    /\ hist.pushed[task_queue[w][Len(task_queue[w])]] > 0


\* C28: once remark has started on a cycle that was not aborted, no remark
\* worker stops the VM: finalize_marking goes on to its exit, where
\* has_overflown is set or no completed SATB buffer is left.
C28_RemarkCompletes ==
  vm_pc # "idle" =>
    /\ ~fatal
    /\ \A w \in Workers : pc[w] # "guarantee"

\* C30: regular_clock_call returns false for a task that has aborted or
\* when has_overflown is set; otherwise it returns true outside the
\* concurrent phase, whatever the other flags are; otherwise it returns
\* true only with no abort of the cycle, no yield request, no time-out and
\* no completed SATB buffers pending outside a drain; it sets has_timed_out
\* exactly when the time-out is the first test that fails.
C30_ClockPriority ==
  clk.called =>
    LET in == clk.in
        first == ~in.has_aborted /\ ~in.has_overflown
    IN /\ ~first => ~clk.ret
       /\ (first /\ ~in.concurrent) => clk.ret
       /\ (first /\ in.concurrent) =>
            (clk.ret <=> /\ ~in.cm_has_aborted
                         /\ ~in.should_yield
                         /\ ~in.elapsed_over_target
                         /\ ~(in.process_completed_buffers /\ ~in.draining_satb_buffers))
       /\ has_timed_out[clk.w] <=>
            /\ first /\ in.concurrent /\ ~in.cm_has_aborted /\ ~in.should_yield
            /\ in.elapsed_over_target

\* A clock call outside the concurrent phase has returned true with the
\* cycle aborted, a yield requested, the time used up and SATB buffers
\* pending.
C30_Witness ==
  /\ clk.called /\ clk.ret
  /\ ~clk.in.concurrent /\ clk.in.cm_has_aborted /\ clk.in.should_yield
  /\ clk.in.elapsed_over_target
  /\ clk.in.process_completed_buffers /\ ~clk.in.draining_satb_buffers
  /\ ~has_timed_out[clk.w]

\* C31: a worker that comes out of the first barrier because the barrier
\* was aborted leaves the overflow protocol: the code between the barriers
\* does not reset the global marking state for it, and it is not held in
\* the second barrier.
C31_BarrierAbort ==
  [][\A w \in Workers :
       /\ (pc[w] = "between" /\ pc'[w] # "between" /\ barrier[1].aborted) =>
            /\ hist'.restarted = hist.restarted
            /\ hist'.claimed = hist.claimed
            /\ <<finger, has_overflown, task_queue, chunk_list, free_list, hwm>>' =
               <<finger, has_overflown, task_queue, chunk_list, free_list, hwm>>
       /\ (pc'[w] = "barrier2_wait" /\ barrier[1].aborted) =>
            barrier_released(barrier'[2])]_vars

\* Where a worker is from its arrival at the first barrier to its release
\* from the second.
InOverflowProtocol(w) ==
  pc[w] \in {"barrier1_wait", "between", "barrier2_enter", "barrier2_wait"}

\* C32: worker 0 runs reset_marking_for_restart between the barriers only
\* when every worker has arrived at the first barrier and none has been
\* released from the second, so that no worker pushes, pops or claims a
\* region while the reset runs.
C32_ResetIsolated ==
  [][(pc[0] = "between" /\ pc'[0] = "barrier2_enter" /\ concurrent) =>
       \A w \in Workers : InOverflowProtocol(w)]_vars

\* The global marking state that reset_marking_for_restart writes.
GlobalMarkState ==
  <<has_overflown, finger, chunk_list, free_list, hwm, chunks_in_chunk_list,
    chunk_capacity, task_queue>>

\* C33: in the non-concurrent phase no step of the overflow handling changes
\* the global marking state, and has_overflown stays set; in any phase only
\* the code between the barriers run by worker 0 in a parallel step of the
\* concurrent phase changes it, and that step resets it.
C33_ResetOnlyConcurrentWorker0 ==
  [][/\ (~concurrent \/ is_serial) => UNCHANGED GlobalMarkState
     /\ ~concurrent => has_overflown'
     /\ \A w \in Workers :
          (pc[w] # "between" \/ w # 0) /\ pc'[w] # pc[w] => UNCHANGED GlobalMarkState
     /\ (concurrent /\ ~is_serial /\ pc[0] = "between" /\ pc'[0] # "between") =>
          /\ ~has_overflown' /\ finger' = HeapStart
          /\ chunk_list' = << >> /\ chunks_in_chunk_list' = 0
          /\ \A w \in Workers : task_queue'[w] = << >>]_vars

\* A parallel step outside the concurrent phase: every worker is through
\* the second barrier and the overflow, the stack and worker 0's queue are
\* as they were.
C33_Witness ==
  /\ ~concurrent /\ ~is_serial
  /\ \A w \in Workers : pc[w] = "yield_check"
  /\ has_overflown /\ chunk_list # << >> /\ task_queue[0] # << >>
  /\ finger = NULL

C35_SpillLosesNothing ==
  [][\A w \in Workers :
       (pc[w] = "dg_loop" /\ pc'[w] = "gdl_enter") =>
         hist'.dropped = hist.dropped]_vars

\* C36: a marking step of a gang of N > 1 workers returns un-aborted only when
\* all workers are out of work together: the region cursor is exhausted, the
\* overflow stack is empty and the deque of every worker is empty.
C36_JointCompletion ==
  [][\A w \in Workers :
       (pc[w] = "epilogue" /\ pc'[w] # "epilogue" /\ ~task_aborted[w]) =>
         /\ out_of_memory_server_cset
         /\ chunk_list = << >>
         /\ \A v \in Workers : task_queue[v] = << >>]_vars

(***************************************************************************)
(* SpecVerify: FreeSemeruRegionList::verify_list as a function of the      *)
(* list it is given.  The links, the head, the tail and the length are     *)
(* drawn freely over the first VerifyRegions regions, so that lists that   *)
(* are not well formed are among the inputs.                               *)
(***************************************************************************)
VerifyNodes == 1 .. VerifyRegions

\* the loop of verify_list from curr on; ok is false once a guarantee failed
RECURSIVE VerifyLoop(_, _, _, _)
VerifyLoop(curr, prev0, count, last_index) ==
  IF curr = NULL THEN [ok |-> TRUE, prev0 |-> prev0, count |-> count]
  ELSE IF ~(count + 1 < UnrealisticallyLongLength)
       THEN [ok |-> FALSE, prev0 |-> prev0, count |-> count + 1]
  ELSE IF hr_next[curr] # NULL /\ hr_prev[hr_next[curr]] # curr
       THEN [ok |-> FALSE, prev0 |-> prev0, count |-> count + 1]
  ELSE IF ~(hrm_index(curr) = 0 \/ hrm_index(curr) > last_index)
       THEN [ok |-> FALSE, prev0 |-> prev0, count |-> count + 1]
  ELSE VerifyLoop(hr_next[curr], curr, count + 1, hrm_index(curr))

\* FreeSemeruRegionList::verify_list: TRUE when no guarantee fails
verify_list(list) ==
  /\ list.head = NULL \/ hr_prev[list.head] = NULL
  /\ LET r == VerifyLoop(list.head, NULL, 0, 0)
     IN /\ r.ok
        /\ list.tail = r.prev0
        /\ list.tail = NULL \/ hr_next[list.tail] = NULL
        /\ list.length = r.count

InitV ==
  /\ InitSizes
  /\ InitRootIdle
  /\ InitRemarkIdle
  /\ clk = NoClock
  /\ layout = [chain |-> <<1>>, premarked |-> FALSE,
               kind |-> <<"normal", "normal", "normal", "empty">>]
  /\ restart_for_overflow = FALSE
  /\ is_serial = FALSE
  /\ next_mark_bitmap = {}
  /\ finger = HeapStart
  /\ has_overflown = FALSE
  /\ cm_has_aborted = FALSE
  /\ concurrent = TRUE
  /\ should_yield = FALSE
  /\ alive = [r \in Regions |-> {}]
  /\ target_obj_queue = [r \in Regions |-> << >>]
  /\ region_mark_stats = [r \in Regions |-> 0]
  /\ InitStack
  /\ barrier = [b \in 1 .. 2 |-> EmptyBarrier]
  /\ pc = [w \in Workers |-> "idle"]
  /\ site = [w \in Workers |-> "A"]
  /\ curr_region = [w \in Workers |-> NULL]
  /\ alive_bitmap = [w \in Workers |-> NULL]
  /\ task_aborted = [w \in Workers |-> FALSE]
  /\ has_timed_out = [w \in Workers |-> FALSE]
  /\ task_queue = [w \in Workers |-> << >>]
  /\ cache = [w \in Workers |-> EmptyCache]
  /\ old_finger = [w \in Workers |-> NULL]
  /\ fatal = FALSE
  /\ hist = InitHist
  /\ InitThreadsIdle
  /\ hr_containing_set = [hr \in HeapRegions |-> NULL]
  /\ \E nx, pv \in [VerifyNodes -> {NULL} \cup VerifyNodes] :
       /\ hr_next = [hr \in HeapRegions |-> IF hr \in VerifyNodes THEN nx[hr] ELSE NULL]
       /\ hr_prev = [hr \in HeapRegions |-> IF hr \in VerifyNodes THEN pv[hr] ELSE NULL]
  /\ \E h, t \in {NULL} \cup VerifyNodes, n \in 0 .. VerifyRegions :
       free_lists = [l \in ListIds |->
                       IF l = 1 THEN [length |-> n, head |-> h, tail |-> t, last |-> NULL]
                       ELSE EmptyList]
  /\ lop = NoCall

\* one call of verify_list on list self
VerifyList(self) ==
  /\ lop.op = "none"
  /\ Called("verify_list", self, NULL, NULL, verify_list(free_lists[self]))
  /\ UNCHANGED <<hr_next, hr_prev, hr_containing_set, free_lists, nonListVars>>

NextV == \E self \in ListIds : VerifyList(self)

SpecVerify == InitV /\ [][NextV]_vars

\* The regions reached from hr through next, hr first, as long as no region
\* comes twice; n bounds the walk.
RECURSIVE ChainFrom(_, _, _)
ChainFrom(hr, seen, n) ==
  IF hr = NULL \/ hr \in seen \/ n = 0 THEN << >>
  ELSE <<hr>> \o ChainFrom(hr_next[hr], seen \cup {hr}, n - 1)

\* The walk from hr ends at NULL without coming to a region twice.
RECURSIVE Acyclic(_, _)
Acyclic(hr, seen) ==
  \/ hr = NULL
  \/ hr \notin seen /\ Acyclic(hr_next[hr], seen \cup {hr})

\* A well-formed list: the walk from the head is finite, strictly ascending
\* by index, its links are symmetric, and tail and length match the walk.
WellFormedList(list) ==
  LET s == ChainFrom(list.head, {}, MaxHeapRegions)
  IN /\ Acyclic(list.head, {})
     /\ \A k \in 1 .. Len(s) - 1 : hrm_index(s[k]) < hrm_index(s[k + 1])
     /\ \A k \in 1 .. Len(s) - 1 : hr_prev[s[k + 1]] = s[k]
     /\ list.head # NULL => hr_prev[list.head] = NULL
     /\ list.tail = (IF s = << >> THEN NULL ELSE s[Len(s)])
     /\ list.length = Len(s)

\* C37: verify_list passes exactly for the well-formed lists shorter than the
\* plausible-length bound; a list with an adjacent pair that is not strictly
\* ascending by index, a node of index 0 behind the head included, fails.
C37_VerifyExact ==
  lop.op = "verify_list" =>
    (lop.ret <=> /\ WellFormedList(free_lists[lop.self])
                 /\ free_lists[lop.self].length < UnrealisticallyLongLength)

\* C38: with the threads of SpecStack calling allocate_new_chunk concurrently,
\* no backing index is handed out twice (a chunk is held by one thread or
\* stands once on one of the two lists), no index at or above the capacity
\* is handed out, and hwm never exceeds the capacity plus the number of
\* threads.
C38_BackingSlots ==
  LET held == {t \in Threads : schunk[t] # NULL}
      lists == chunk_list \o free_list
  IN /\ \A t1, t2 \in held : t1 # t2 => schunk[t1] # schunk[t2]
     /\ \A i, j \in 1 .. Len(lists) : i # j => lists[i] # lists[j]
     /\ \A t \in held : \A i \in 1 .. Len(lists) : schunk[t] # lists[i]
     /\ \A t \in held : schunk[t] \in 1 .. chunk_capacity
     /\ \A i \in 1 .. Len(lists) : lists[i] \in 1 .. chunk_capacity
     /\ hwm <= chunk_capacity + StackThreads

\* Two threads raced through allocate_new_chunk: one was handed the last
\* backing slot, the add of the other took hwm past the capacity.
C38_Witness ==
  /\ hwm > chunk_capacity
  /\ \E t \in Threads : schunk[t] = chunk_capacity

\* obj is marked in the alive bitmap of some region
IsMarked(o) == \E r \in Regions : o \in alive[r]

\* obj is an entry of a worker's deque or of a chunk of the overflow stack
IsQueued(o) ==
  \/ \E w \in Workers : o \in SetOf(task_queue[w])
  \/ \E i \in 1 .. Len(chunk_list) :
       o \in SetOf(ValidEntries(chunk_data[chunk_list[i]], 1))

\* A grey object: marked, still to be scanned.  A type array is marked and
\* never scanned, and the object at the bottom of a humongous region is
\* scanned in place when its region is claimed.
IsGrey(o) ==
  /\ IsMarked(o) /\ hist.scanned[o] = 0
  /\ ~IsTypeArray(o)
  /\ ~(is_starts_humongous(ObjRegion(o)) /\ o = BottomObj(ObjRegion(o)))

\* C39: no grey object is lost silently: an object that is marked, has not
\* been scanned and is in no deque and in no chunk of the overflow stack is
\* only found while has_overflown is set.
C39_NoSilentLoss ==
  \A o \in Objects : (IsGrey(o) /\ ~IsQueued(o)) => has_overflown

\* _next_mark_bitmap->is_marked(obj), the condition of the assertions of push
\* and process_grey_task_entry
next_bitmap_is_marked(o) == o \in next_mark_bitmap

\* C40: the marked-entry assertions hold on the marking path: whenever an
\* object is pushed by make_reference_alive, and whenever an object entry is
\* scanned by process_grey_task_entry, the next mark bitmap of the task
\* reports the object as marked.
C40_MarkedEntryAssertions ==
  [][\A o \in Objects :
       (hist'.pushed[o] > hist.pushed[o] \/ hist'.scanned[o] > hist.scanned[o]) =>
         next_bitmap_is_marked(o)]_vars

====
